---- MODULE Spec2Model ----
(***************************************************************************)
(* Model of the vfio_configurator package (kunihir0/vfio-auto): PCI/IOMMU  *)
(* discovery and matching (pci.py), the memoizing cache (utils.py), the    *)
(* discovery pass (cli.py gather_system_info) and the setup workflow       *)
(* (cli.py interactive_setup with vfio_mods.py, initramfs.py and           *)
(* bootloader.py).  Text is modelled as TLA+ strings and the string        *)
(* operations of the source (split, strip, in, endswith, count, re.match)  *)
(* are computed character by character.                                    *)
(***************************************************************************)
EXTENDS Integers, Sequences, FiniteSets, TLC

VARIABLES
    gpu,            \* find_gpu_related_devices: the gpu argument (a record with 'bdf')
    iommu_groups,   \* find_gpu_related_devices: the iommu_groups argument (Optional dict)
    rel_result,     \* find_gpu_related_devices: the returned (primary_gpu_group_id, all_related_devices)
    rel_pc,         \* "call" before the call, "done" after it
    sel_gpus,       \* find_gpu_for_passthrough: the gpus argument (list of GPU dicts)
    sel_input,      \* what the user types when input() is called
    sel_result,     \* find_gpu_for_passthrough: the returned Optional GPU dict
    sel_prompted,   \* whether input() was called
    sel_pc,         \* "call", or the revision that ran: "pci.py" / "vfio.py"
    machine,        \* what lspci, /sys/kernel/iommu_groups and /proc/cmdline hold now
    user_input,     \* what the user types if the discovery pass asks
    debug,          \* the --debug flag of the process
    SYSTEM_CACHE,   \* utils._SYSTEM_CACHE
    system_info,    \* what gather_system_info returned
    call_log,       \* the calls gather_system_info made in this pass, in order
    g_pc,           \* "start", then "done" (returned) or "raised"
    pass_no,        \* the number of the discovery pass in this process
    ids_related,    \* get_device_ids: the related_devices argument
    ids_result,     \* get_device_ids: the returned list of "vendor:device" texts
    ids_pc,         \* "call", or the revision that ran: "pci.py" / "vfio.py"
    verify_env,     \* verify_after_reboot: interactive, and per step what its check, the user and its fix do
    verify_result,  \* verify_after_reboot: the returned bool and the verification_results dict
    verify_pc,      \* "call" before verify_after_reboot, "done" after it
    conf_file,      \* the configuration file being edited: None, or its lines
    conf_backups,   \* the backups directory: the copies made, by timestamp
    conf_env,       \* whether the backups directory can be made, a copy made, the file written
    conf_params,    \* the kernel parameters or device IDs requested
    conf_calls,     \* the calls made so far: time, dry_run, file before and after, what was done, the result
    host,           \* the installation the setup runs on: distribution id, programs on PATH, whether commands succeed
    disk,           \* paths that exist, and what the run did to them (written, created, backed up, commands executed)
    setup_args,     \* interactive_setup: system_info, non_interactive, dry_run
    answers,        \* what the user types at each prompt of the setup
    setup_result,   \* what interactive_setup returned, or the exception it raised
    setup_pc        \* "call" before interactive_setup, "done" after it

rel_vars == <<gpu, iommu_groups, rel_result, rel_pc>>
sel_vars == <<sel_gpus, sel_input, sel_result, sel_prompted, sel_pc>>

ids_vars == <<ids_related, ids_result, ids_pc>>

verify_vars == <<verify_env, verify_result, verify_pc>>

conf_vars == <<conf_file, conf_backups, conf_env, conf_params, conf_calls>>

gather_vars == <<machine, user_input, debug, SYSTEM_CACHE, system_info, call_log, g_pc, pass_no>>

setup_vars == <<host, disk, setup_args, answers, setup_result, setup_pc>>

-----------------------------------------------------------------------------
(* Optional values: None is the empty tuple, a present value v is <<v>>.   *)
None == <<>>
Some(v) == <<v>>

-----------------------------------------------------------------------------
(* Python string operations.                                               *)

\* s[i-1] in Python terms; "" past the end
Char(s, i) == IF i >= 1 /\ i <= Len(s) THEN SubSeq(s, i, i) ELSE ""

\* sub in s
Contains(sub, s) ==
    \E i \in 1..(Len(s) - Len(sub) + 1) : SubSeq(s, i, i + Len(sub) - 1) = sub

\* s.count(c) for a one-character c
CountChar(s, c) == Cardinality({i \in 1..Len(s) : Char(s, i) = c})

\* s.split(sep): the pieces between the occurrences of sep, found left to
\* right without overlap, empty pieces kept
Split(s, sep) ==
    LET
        SepAt(s1, sep1, i) ==
            i + Len(sep1) - 1 <= Len(s1) /\ SubSeq(s1, i, i + Len(sep1) - 1) = sep1

        RECURSIVE SplitFrom(_, _, _)
        SplitFrom(s1, sep1, i) ==
            IF \E j \in i..Len(s1) : SepAt(s1, sep1, j)
            THEN LET j == CHOOSE k \in i..Len(s1) : SepAt(s1, sep1, k) /\ \A m \in i..(k - 1) : ~SepAt(s1, sep1, m)
                 IN  <<SubSeq(s1, i, j - 1)>> \o SplitFrom(s1, sep1, j + Len(sep1))
            ELSE <<SubSeq(s1, i, Len(s1))>>
    IN
        SplitFrom(s, sep, 1)

\* [0-9a-fA-F]{n} matches s at position i
IsHexRun(s, i, n) ==
    LET
        \* the character class [0-9a-fA-F]
        HexDigits ==
            {"0", "1", "2", "3", "4", "5", "6", "7", "8", "9",
             "a", "b", "c", "d", "e", "f", "A", "B", "C", "D", "E", "F"}
    IN
        \A j \in i..(i + n - 1) : Char(s, j) \in HexDigits

-----------------------------------------------------------------------------
(* Python dicts.  A device dict is a record whose domain is its key set; a *)
(* dict of IOMMU groups is the sequence of its items in insertion order,   *)
(* each [id |-> group id, devices |-> list of device dicts].               *)

\* d.get(k, default)
Get(d, k, default) == IF k \in DOMAIN d THEN d[k] ELSE default

\* the (device, group_id) pairs in the order the nested loops visit them
RECURSIVE GroupItems(_)
GroupItems(groups) ==
    IF groups = <<>> THEN <<>>
    ELSE [i \in 1..Len(Head(groups).devices) |->
             [device |-> Head(groups).devices[i], group_id |-> Head(groups).id]]
         \o GroupItems(Tail(groups))

-----------------------------------------------------------------------------
(* find_gpu_related_devices  (pci.py 411-501)                              *)

\* [0-9a-fA-F]{2}:[0-9a-fA-F]{2}\.[0-9a-fA-F] matches s at position i
BusDevFnAt(s, i) ==
    /\ IsHexRun(s, i, 2)
    /\ Char(s, i + 2) = ":"
    /\ IsHexRun(s, i + 3, 2)
    /\ Char(s, i + 5) = "."
    /\ IsHexRun(s, i + 6, 1)

\* bdf if ':' not in bdf or bdf.count(':') == 1 else bdf.split(':')[-2] + ':' + bdf.split(':')[-1]
ShortBdf(bdf) ==
    IF ~Contains(":", bdf) \/ CountChar(bdf, ":") = 1 THEN bdf
    ELSE LET parts == Split(bdf, ":")
         IN  parts[Len(parts) - 1] \o ":" \o parts[Len(parts)]

\* the failure return "None, []"
RelatedFailure == [primary |-> None, related |-> <<>>]

\* find_gpu_related_devices without the guard of line 427: it reports the
\* device alone in group 0 whatever the groups are
find_gpu_related_devices_unguarded(g, groups_opt) ==
    [primary |-> Some(0), related |-> <<[device |-> g, group_id |-> 0]>>]

\* find_gpu_related_devices(gpu, iommu_groups): [primary, related], the
\* primary group id and the list of related devices
find_gpu_related_devices(g, groups_opt) ==
    LET
        \* s.endswith(suf)
        EndsWith(s, suf) ==
            /\ Len(suf) <= Len(s)
            /\ SubSeq(s, Len(s) - Len(suf) + 1, Len(s)) = suf

        \* re.match(r'(?:([0-9a-fA-F]{4}):)?([0-9a-fA-F]{2}:[0-9a-fA-F]{2})\.[0-9a-fA-F]', gpu_bdf):
        \* None, or the groups (domain, bus_device) of the match
        BaseBdfMatch(gpu_bdf) ==
            IF IsHexRun(gpu_bdf, 1, 4) /\ Char(gpu_bdf, 5) = ":" /\ BusDevFnAt(gpu_bdf, 6)
            THEN Some([domain |-> Some(SubSeq(gpu_bdf, 1, 4)), bus_device |-> SubSeq(gpu_bdf, 6, 10)])
            ELSE IF BusDevFnAt(gpu_bdf, 1)
                 THEN Some([domain |-> None, bus_device |-> SubSeq(gpu_bdf, 1, 5)])
                 ELSE None

        \* "if bus_device in device_bdf": the device is collected as related
        IsRelatedDevice(bus_device, device_bdf) ==
            Contains(bus_device, device_bdf)

        \* "if short_device_bdf == short_gpu_bdf or device_bdf.endswith(short_gpu_bdf)"
        IsPrimaryDevice(gpu_bdf, device_bdf) ==
            \/ ShortBdf(device_bdf) = ShortBdf(gpu_bdf)
            \/ EndsWith(device_bdf, ShortBdf(gpu_bdf))

        \* the loop of lines 463-480 and the returns of lines 482-501
        ScanGroups(gpu_bdf, bus_device, groups) ==
            LET items   == GroupItems(groups)
                IsRel(it) == IsRelatedDevice(bus_device, Get(it.device, "bdf", ""))
                IsPrim(it) == IsRel(it) /\ IsPrimaryDevice(gpu_bdf, Get(it.device, "bdf", ""))
                related == SelectSeq(items, IsRel)
                prims   == SelectSeq(items, IsPrim)
            IN  IF prims = <<>> THEN RelatedFailure
                ELSE [primary |-> Some(prims[Len(prims)].group_id), related |-> related]
    IN
        IF "bdf" \notin DOMAIN g \/ groups_opt = None \/ groups_opt[1] = <<>>
        THEN RelatedFailure
        ELSE LET m == BaseBdfMatch(g.bdf)
             IN  IF m = None THEN RelatedFailure
                 ELSE ScanGroups(g.bdf, m[1].bus_device, groups_opt[1])

-----------------------------------------------------------------------------
(* Inputs of find_gpu_related_devices: bus addresses as sysfs names them   *)
(* (always with a domain) and as lspci prints them (the domain only when   *)
(* the machine has more than one).                                         *)

\* group ids 1..MaxGroupId
MaxGroupId == 3

\* sysfs device names that can be members of an IOMMU group
SysAddrs == <<"0000:00:0b.0", "0000:0b:00.0", "0000:0b:00.1", "0001:0b:00.0", "0000:0c:00.0">>

\* the groups dict for a placement of the addresses (0: in no group), ids ascending
RECURSIVE GroupsFrom(_, _)
GroupsFrom(place, id) ==
    LET
        \* vendor:device ids the sysfs files of a device hold
        SysIds(addr) ==
            CASE addr = "0000:0b:00.0" -> <<"1002", "73bf">>
              [] addr = "0000:0b:00.1" -> <<"1002", "ab28">>
              [] addr = "0001:0b:00.0" -> <<"1002", "73bf">>
              [] addr = "0000:00:0b.0" -> <<"1002", "1638">>
              [] OTHER                 -> <<"8086", "15f3">>

        \* the device dict get_iommu_groups builds for a group member (pci.py 344-375)
        GroupDevice(addr) ==
            [bdf |-> addr, vendor_id |-> SysIds(addr)[1], device_id |-> SysIds(addr)[2]]
    IN
        IF id > MaxGroupId THEN <<>>
        ELSE LET members == SelectSeq(SysAddrs, LAMBDA a : place[a] = id)
             IN  (IF members = <<>> THEN <<>>
                  ELSE <<[id |-> id, devices |-> [i \in 1..Len(members) |-> GroupDevice(members[i])]]>>)
                 \o GroupsFrom(place, id + 1)

\* the variables of find_gpu_related_devices when it is not the operation under study
RelIdle ==
    /\ rel_pc = "idle"
    /\ rel_result = RelatedFailure
    /\ gpu = [bdf |-> ""]
    /\ iommu_groups = None

\* a selected GPU and a groups dict, or no groups dict at all
RelInit ==
    LET
        \* the 'bdf' of the selected GPU; "0b:00" is not a bus address
        GpuAddrs ==
            {"0000:0b:00.0", "0b:00.0", "0000:00:0b.0", "0001:0b:00.0", "0b:00"}

        SysAddrSet ==
            {SysAddrs[i] : i \in 1..Len(SysAddrs)}

        \* lspci prints a domain for every device or for none
        SameSnapshot(gpu_bdf, place) ==
            CountChar(gpu_bdf, ":") = 1 => \A a \in SysAddrSet : place[a] # 0 => SubSeq(a, 1, 4) = "0000"
    IN
        /\ rel_pc = "call"
        /\ rel_result = RelatedFailure
        /\ gpu \in {[bdf |-> a] : a \in GpuAddrs}
        /\ \E place \in [SysAddrSet -> 0..MaxGroupId] :
              /\ SameSnapshot(gpu.bdf, place)
              /\ iommu_groups \in {None, Some(GroupsFrom(place, 1))}

\* the address as lspci prints it on a single-domain machine: domain 0000 left out
ShortSpelling(addr) ==
    IF CountChar(addr, ":") = 2 /\ SubSeq(addr, 1, 5) = "0000:" THEN SubSeq(addr, 6, Len(addr)) ELSE addr

\* the address with its domain spelled out (lspci leaves out domain 0000)
Canon(addr) == IF CountChar(addr, ":") = 1 THEN "0000:" \o addr ELSE addr

\* the groups dict with every member address respelled, short or with its domain
RespellGroups(groups, short) ==
    LET Spell(addr) == IF short THEN ShortSpelling(addr) ELSE Canon(addr)
    IN  [i \in 1..Len(groups) |->
            [groups[i] EXCEPT !.devices =
                [j \in 1..Len(groups[i].devices) |->
                    [groups[i].devices[j] EXCEPT !.bdf = Spell(groups[i].devices[j].bdf)]]]]

\* callers of find_gpu_related_devices on a single-domain machine: the selected
\* address and the member addresses each in either spelling
SpellInit ==
    LET
        GpuAddrs ==
            {"0000:0b:00.0", "0b:00.0", "0000:00:0b.0", "00:0b.0"}

        Domain0 ==
            {SysAddrs[i] : i \in {j \in 1..Len(SysAddrs) : SubSeq(SysAddrs[j], 1, 5) = "0000:"}}

        Placement(place0) ==
            [a \in {SysAddrs[i] : i \in 1..Len(SysAddrs)} |-> IF a \in Domain0 THEN place0[a] ELSE 0]
    IN
        /\ rel_pc = "call"
        /\ rel_result = RelatedFailure
        /\ gpu \in {[bdf |-> a] : a \in GpuAddrs}
        /\ \E place0 \in [Domain0 -> 0..MaxGroupId] :
              iommu_groups \in {Some(GroupsFrom(Placement(place0), 1)),
                                Some(RespellGroups(GroupsFrom(Placement(place0), 1), TRUE))}

\* primary_group_id, related_devices = find_gpu_related_devices(gpu, iommu_groups)
FindGpuRelatedDevices ==
    /\ rel_pc = "call"
    /\ rel_result' = find_gpu_related_devices(gpu, iommu_groups)
    /\ rel_pc' = "done"
    /\ UNCHANGED <<gpu, iommu_groups>>
    /\ UNCHANGED <<sel_vars, gather_vars, setup_vars, ids_vars, verify_vars, conf_vars>>

RelNext == FindGpuRelatedDevices

-----------------------------------------------------------------------------
(* Vocabulary of the claims about find_gpu_related_devices.                *)

\* the bus/slot prefix: the address minus its trailing ".function"
BusSlotPrefix(addr) == SubSeq(Canon(addr), 1, Len(Canon(addr)) - 2)

\* the (address, group id) memberships of the groups argument
Memberships ==
    IF iommu_groups = None THEN {}
    ELSE LET items == GroupItems(iommu_groups[1])
         IN  {<<items[i].device.bdf, items[i].group_id>> : i \in 1..Len(items)}

\* the group ids that hold the selected device's exact address
ExactGroups == {m[2] : m \in {x \in Memberships : Canon(x[1]) = Canon(gpu.bdf)}}

\* the members that share the selected device's bus/slot prefix
PrefixSharers == {m[1] : m \in {x \in Memberships : BusSlotPrefix(x[1]) = BusSlotPrefix(gpu.bdf)}}

RelatedAddrs == {rel_result.related[i].device.bdf : i \in 1..Len(rel_result.related)}

RelSucceeded == rel_pc = "done" /\ rel_result.primary # None

\* C1: on success the related list holds exactly the group members that share
\* the selected device's bus/slot prefix (the M siblings and the device itself,
\* M+1 records): none with another prefix, none left out.
C1_RelatedExactlyPrefixSharers ==
    RelSucceeded =>
        /\ RelatedAddrs = PrefixSharers
        /\ Len(rel_result.related) = Cardinality(PrefixSharers)

\* C2: on success the primary group id is the id of the group that holds the
\* selected device's exact bus address, whatever other groups hold.
C2_PrimaryIsExactGroup ==
    RelSucceeded => ExactGroups = {rel_result.primary[1]}

\* C9: on success the selected device's own record is in the related list.
C9_SelectedInRelated ==
    RelSucceeded => \E a \in RelatedAddrs : Canon(a) = Canon(gpu.bdf)

\* C10: a selected device whose exact address is in no group gives the failure
\* (no primary group, empty list) even when siblings were found, and a selected
\* device found in a group with no siblings gives success with a related list
\* of only itself.
C10_FailureDistinctFromSingleton ==
    rel_pc = "done" =>
        /\ ExactGroups = {} => rel_result = RelatedFailure
        /\ (ExactGroups # {} /\ Cardinality(PrefixSharers) = 1) =>
              /\ rel_result.primary # None
              /\ Len(rel_result.related) = 1
              /\ Canon(rel_result.related[1].device.bdf) = Canon(gpu.bdf)

-----------------------------------------------------------------------------
(* find_gpu_for_passthrough  (pci.py 240-290, and the standalone script    *)
(* vfio.py 468-496)                                                        *)

Whitespace == {" ", "\t"}

RECURSIVE RStrip(_)
RStrip(s) == IF Len(s) > 0 /\ Char(s, Len(s)) \in Whitespace THEN RStrip(SubSeq(s, 1, Len(s) - 1)) ELSE s
\* s.strip()
Strip(s) ==
    LET
        RECURSIVE LStrip(_)
        LStrip(s1) ==
            IF Len(s1) > 0 /\ Char(s1, 1) \in Whitespace THEN LStrip(SubSeq(s1, 2, Len(s1))) ELSE s1
    IN
        LStrip(RStrip(s))

\* int(s): Some(n), or None where Python raises ValueError
ParseInt(s) ==
    LET
        Digits ==
            <<"0", "1", "2", "3", "4", "5", "6", "7", "8", "9">>

        DigitValue(c) ==
            CHOOSE v \in 0..9 : Digits[v + 1] = c

        IsDigit(c) ==
            \E v \in 0..9 : Digits[v + 1] = c

        \* the value of a run of decimal digits
        RECURSIVE DigitsValue(_)
        DigitsValue(s1) ==
            IF Len(s1) = 0 THEN 0
            ELSE 10 * DigitsValue(SubSeq(s1, 1, Len(s1) - 1)) + DigitValue(Char(s1, Len(s1)))
    IN
        LET t    == Strip(s)
            sign == IF Char(t, 1) \in {"+", "-"} THEN Char(t, 1) ELSE ""
            body == SubSeq(t, Len(sign) + 1, Len(t))
        IN  IF Len(body) > 0 /\ \A i \in 1..Len(body) : IsDigit(Char(body, i))
            THEN Some(IF sign = "-" THEN 0 - DigitsValue(body) ELSE DigitsValue(body))
            ELSE None

\* [gpu for gpu in gpus if gpu.get('vendor') == 'AMD'] and its complement
AmdGpus(gpus) == SelectSeq(gpus, LAMBDA g : Get(g, "vendor", "") = "AMD")
NonAmdGpus(gpus) == SelectSeq(gpus, LAMBDA g : Get(g, "vendor", "") # "AMD")

\* the try block of pci.py 279-290 / vfio.py 487-492: the GPU at int(selection) - 1, or None
ChosenGpu(amd_gpus, selection) ==
    LET n == ParseInt(selection)
    IN  IF n # None /\ 0 <= n[1] - 1 /\ n[1] - 1 < Len(amd_gpus)
        THEN Some(amd_gpus[n[1]])
        ELSE None

\* find_gpu_for_passthrough without the shortcut for a single AMD GPU
find_gpu_for_passthrough_always_asks(gpus, typed) ==
    LET amd_gpus == AmdGpus(gpus)
    IN  IF amd_gpus = <<>> THEN [result |-> None, prompted |-> FALSE]
        ELSE IF NonAmdGpus(gpus) = <<>> THEN [result |-> None, prompted |-> FALSE]
        ELSE [result |-> ChosenGpu(amd_gpus, Strip(typed)), prompted |-> TRUE]

\* pci.py: [result, prompted]
find_gpu_for_passthrough(gpus, typed) ==
    LET amd_gpus == AmdGpus(gpus)
    IN  IF amd_gpus = <<>> THEN [result |-> None, prompted |-> FALSE]
        ELSE IF NonAmdGpus(gpus) = <<>> THEN [result |-> None, prompted |-> FALSE]
        ELSE IF Len(amd_gpus) = 1 THEN [result |-> Some(amd_gpus[1]), prompted |-> FALSE]
        ELSE [result |-> ChosenGpu(amd_gpus, Strip(typed)), prompted |-> TRUE]

\* vfio.py: [result, prompted]
find_gpu_for_passthrough_vfio_py(gpus, typed) ==
    LET amd_gpus == AmdGpus(gpus)
    IN  IF amd_gpus = <<>> THEN [result |-> None, prompted |-> FALSE]
        ELSE IF Len(amd_gpus) > 1
             THEN [result |-> IF ChosenGpu(amd_gpus, typed) # None
                              THEN ChosenGpu(amd_gpus, typed)
                              ELSE Some(amd_gpus[1]),
                   prompted |-> TRUE]
             ELSE [result |-> Some(amd_gpus[1]), prompted |-> FALSE]

\* at most MaxGpus display devices
MaxGpus == 3

\* lists of distinct GPUs
GpuLists ==
    LET
        \* GPU dicts as get_gpus builds them (pci.py 141-169)
        GpuPool ==
                   {
            [bdf |-> "0b:00.0", description |-> "Navi 21", vendor |-> "AMD", vendor_id |-> "1002", device_id |-> "73bf", driver |-> "amdgpu"],
            [bdf |-> "0c:00.0", description |-> "Navi 10", vendor |-> "AMD", vendor_id |-> "1002", device_id |-> "731f", driver |-> "None"],
            [bdf |-> "0d:00.0", description |-> "Vega 10", vendor |-> "AMD", vendor_id |-> "1002", device_id |-> "687f", driver |-> "amdgpu"],
            [bdf |-> "01:00.0", description |-> "GA104", vendor |-> "NVIDIA", vendor_id |-> "10de", device_id |-> "2484", driver |-> "nvidia"],
            [bdf |-> "00:02.0", description |-> "UHD Graphics 630", vendor |-> "Intel", vendor_id |-> "8086", device_id |-> "3e92", driver |-> "i915"]}
    IN
        UNION {{q \in [1..n -> GpuPool] : \A i, j \in 1..n : i # j => q[i] # q[j]} : n \in 0..MaxGpus}

\* what the user may type at the prompt
TypedInputs == {"1", "2", "3", "4", "0", "-1", " 2 ", "x", "", "1.5"}

SelIdle ==
    /\ sel_pc = "idle"
    /\ sel_gpus = <<>>
    /\ sel_input = ""
    /\ sel_result = None
    /\ sel_prompted = FALSE

SelInit ==
    /\ sel_pc = "call"
    /\ sel_gpus \in GpuLists
    /\ sel_input \in TypedInputs
    /\ sel_result = None
    /\ sel_prompted = FALSE

\* system_info["gpu_for_passthrough"] = find_gpu_for_passthrough(gpus) in the package
FindGpuForPassthrough ==
    /\ sel_pc = "call"
    /\ LET r == find_gpu_for_passthrough(sel_gpus, sel_input)
       IN  sel_result' = r.result /\ sel_prompted' = r.prompted
    /\ sel_pc' = "pci.py"
    /\ UNCHANGED <<sel_gpus, sel_input>>
    /\ UNCHANGED <<rel_vars, gather_vars, setup_vars, ids_vars, verify_vars, conf_vars>>

\* passthrough_gpu = find_gpu_for_passthrough(gpus) in the standalone script
FindGpuForPassthroughVfioPy ==
    /\ sel_pc = "call"
    /\ LET r == find_gpu_for_passthrough_vfio_py(sel_gpus, sel_input)
       IN  sel_result' = r.result /\ sel_prompted' = r.prompted
    /\ sel_pc' = "vfio.py"
    /\ UNCHANGED <<sel_gpus, sel_input>>
    /\ UNCHANGED <<rel_vars, gather_vars, setup_vars, ids_vars, verify_vars, conf_vars>>

SelNext == FindGpuForPassthrough \/ FindGpuForPassthroughVfioPy

-----------------------------------------------------------------------------
(* get_pci_devices_mm  (pci.py 15-110)                                     *)
(* A dict keyed by BDF is the sequence of its values in insertion order;   *)
(* every value carries its key in 'bdf'.  The outcome of a call is         *)
(* [kind |-> "return", value |-> v] or [kind |-> "raise", exc |-> name].   *)

Return(v) == [kind |-> "return", value |-> v]
Raise(e) == [kind |-> "raise", exc |-> e]

\* devices[bdf] = value: an existing key keeps its place
DictSet(devices, value) ==
    IF \E i \in 1..Len(devices) : devices[i].bdf = value.bdf
    THEN [i \in 1..Len(devices) |-> IF devices[i].bdf = value.bdf THEN value ELSE devices[i]]
    ELSE Append(devices, value)

\* bdf in devices
DictHas(devices, bdf) == \E i \in 1..Len(devices) : devices[i].bdf = bdf

\* devices[bdf]
DictAt(devices, bdf) == devices[CHOOSE i \in 1..Len(devices) : devices[i].bdf = bdf]

\* the body of get_pci_devices_mm on the state of the machine e
get_pci_devices_mm(e) ==
    LET
        \* the loop of lines 50-84 from line i on: the dict, or IndexError at parts[3];
        \* ParseMmLine is its body for the parts of line i
        RECURSIVE ParseMm(_, _, _)
        ParseMm(lines, i, devices) ==
            LET
                \* s.strip('"')
                RECURSIVE StripQuotes(_)
                StripQuotes(s) ==
                    IF Len(s) > 0 /\ Char(s, 1) = "\"" THEN StripQuotes(SubSeq(s, 2, Len(s)))
                    ELSE IF Len(s) > 0 /\ Char(s, Len(s)) = "\"" THEN StripQuotes(SubSeq(s, 1, Len(s) - 1))
                    ELSE s

                IdMatch(s) ==
                    LET
                        \* re.search(r'\[([0-9a-fA-F]{4}):([0-9a-fA-F]{4})\]', s): None or Some(<<vendor_id, device_id>>)
                        IdMatchAt(s1, i1) ==
                            /\ Char(s1, i1) = "["
                            /\ IsHexRun(s1, i1 + 1, 4)
                            /\ Char(s1, i1 + 5) = ":"
                            /\ IsHexRun(s1, i1 + 6, 4)
                            /\ Char(s1, i1 + 10) = "]"
                    IN
                        IF \E i1 \in 1..Len(s) : IdMatchAt(s, i1)
                        THEN LET i1 == CHOOSE k \in 1..Len(s) : IdMatchAt(s, k) /\ \A j \in 1..(k - 1) : ~IdMatchAt(s, j)
                             IN  Some(<<SubSeq(s, i1 + 1, i1 + 4), SubSeq(s, i1 + 6, i1 + 9)>>)
                        ELSE None

                \* re.sub(r'\s*\[.*?\]$', '', s): a text that ends in "]" loses everything from
                \* its first "[" (and the white space before it) on
                RemoveTrailingBracket(s) ==
                    IF Len(s) > 0 /\ Char(s, Len(s)) = "]" /\ Contains("[", s)
                    THEN LET i1 == CHOOSE k \in 1..Len(s) : Char(s, k) = "[" /\ \A j \in 1..(k - 1) : Char(s, j) # "["
                         IN  RStrip(SubSeq(s, 1, i1 - 1))
                    ELSE s

                \* the vendor_id / device_id of lines 66-79
                MmIds(parts) ==
                    IF IdMatch(parts[3]) # None THEN IdMatch(parts[3])[1]
                    ELSE IF IdMatch(parts[4]) # None THEN IdMatch(parts[4])[1]
                    ELSE <<"", "">>

                \* the device dict of one line of 'lspci -mm' with at least four parts (lines 57-84)
                MmDevice(parts, ids) ==
                    [bdf       |-> Strip(parts[1]),
                     class     |-> StripQuotes(parts[2]),
                     name      |-> StripQuotes(parts[3]),
                     vendor    |-> Strip(RemoveTrailingBracket(StripQuotes(parts[4]))),
                     driver    |-> "None",
                     vendor_id |-> ids[1],
                     device_id |-> ids[2]]
            IN
                LET ParseMmLine(parts) ==
                        IF Len(parts) < 3 THEN ParseMm(lines, i + 1, devices)
                        ELSE IF Len(parts) < 4 THEN Raise("IndexError")
                        ELSE ParseMm(lines, i + 1, DictSet(devices, MmDevice(parts, MmIds(parts))))
                IN  IF i > Len(lines) THEN Return(devices)
                    ELSE ParseMmLine(Split(Strip(lines[i]), " \""))

        \* the loop of lines 91-106 from line i on; current is current_bdf
        RECURSIVE ParseDrivers(_, _, _, _)
        ParseDrivers(lines, i, current, devices) ==
            LET
                \* re.match(r'^([0-9a-fA-F]{2}:[0-9a-fA-F]{2}\.[0-9a-fA-F]) ', line)
                DriverBdfMatch(line) ==
                    IF BusDevFnAt(line, 1) /\ Char(line, 8) = " " THEN Some(SubSeq(line, 1, 7)) ELSE None
            IN
                IF i > Len(lines) THEN devices
                ELSE IF DriverBdfMatch(lines[i]) # None
                     THEN LET b == DriverBdfMatch(lines[i])[1]
                          IN  ParseDrivers(lines, i + 1, Some(b),
                                           IF DictHas(devices, b) THEN devices
                                           ELSE Append(devices, [bdf |-> b, driver |-> "None"]))
                     ELSE IF current # None /\ Contains("Kernel driver in use:", lines[i])
                          THEN LET driver == Strip(Split(lines[i], "Kernel driver in use:")[2])
                                   old    == DictAt(devices, current[1])
                                   new    == [k \in DOMAIN old |-> IF k = "driver" THEN driver ELSE old[k]]
                               IN  ParseDrivers(lines, i + 1, current, DictSet(devices, new))
                          ELSE ParseDrivers(lines, i + 1, current, devices)

        \* lines 86-110 on the dict parsed from 'lspci -mm'
        WithDrivers(e1, parsed) ==
            IF parsed.kind = "raise" THEN parsed
            ELSE IF e1.k # None /\ e1.k[1] # <<>>
                 THEN Return(Some(ParseDrivers(e1.k[1], 1, None, parsed.value)))
                 ELSE Return(Some(parsed.value))
    IN
        IF ~e.lspci THEN Return(None)
        ELSE IF e.mm = None THEN Return(None)
        ELSE WithDrivers(e, ParseMm(e.mm[1], 1, <<>>))

-----------------------------------------------------------------------------
(* get_gpus and check_host_gpu_driver  (pci.py 113-237)                    *)

\* s.lower()
RECURSIVE Lower(_)
Lower(s) ==
    LET
        UpperLetters ==
            "ABCDEFGHIJKLMNOPQRSTUVWXYZ"

        LowerLetters ==
            "abcdefghijklmnopqrstuvwxyz"

        LowerChar(c) ==
            IF \E i \in 1..26 : Char(UpperLetters, i) = c
            THEN Char(LowerLetters, CHOOSE i \in 1..26 : Char(UpperLetters, i) = c)
            ELSE c
    IN
        IF Len(s) = 0 THEN ""
        ELSE IF Len(s) = 1 THEN LowerChar(s)
        ELSE Lower(SubSeq(s, 1, Len(s) \div 2)) \o Lower(SubSeq(s, Len(s) \div 2 + 1, Len(s)))

\* get_gpus (lines 113-171) on what get_pci_devices_mm returned
get_gpus(pci_devices) ==
    LET
        \* the class test of lines 135-138
        IsDisplayClass(device_info) ==
            LET device_class == Lower(Get(device_info, "class", ""))
            IN  \/ Contains("vga", device_class)
                \/ Contains("3d controller", device_class)
                \/ Contains("display controller", device_class)

        \* the vendor shorthand of lines 151-167
        GpuVendor(device_info) ==
            LET vendor_name == Lower(Get(device_info, "name", "")) \o " " \o Lower(Get(device_info, "vendor", ""))
            IN  IF Contains("nvidia", vendor_name) THEN "NVIDIA"
                ELSE IF Contains("amd", vendor_name) \/ Contains("ati", vendor_name) \/ Contains("radeon", vendor_name)
                     THEN "AMD"
                ELSE IF Contains("intel", vendor_name) THEN "Intel"
                ELSE Get(device_info, "vendor", "Unknown")

        \* gpu_info of lines 141-148 with the shorthand applied
        GpuInfo(device_info) ==
            [bdf         |-> device_info.bdf,
             description |-> Get(device_info, "name", "Unknown GPU"),
             vendor      |-> GpuVendor(device_info),
             vendor_id   |-> Get(device_info, "vendor_id", ""),
             device_id   |-> Get(device_info, "device_id", ""),
             driver      |-> Get(device_info, "driver", "None")]

        \* get_gpus on what get_pci_devices_mm returned
        GpuInfos(shown) ==
            [i \in 1..Len(shown) |-> GpuInfo(shown[i])]
    IN
        IF pci_devices = None \/ pci_devices[1] = <<>> THEN <<>>
        ELSE GpuInfos(SelectSeq(pci_devices[1], IsDisplayClass))

check_host_gpu_driver(gpus, passthrough_gpu) ==
    LET host_gpus == SelectSeq(gpus, LAMBDA g : passthrough_gpu = None \/ g.bdf # passthrough_gpu[1].bdf)
        nvidia_host_gpus == SelectSeq(host_gpus, LAMBDA g : g.vendor = "NVIDIA")
        intel_host_gpus  == SelectSeq(host_gpus, LAMBDA g : g.vendor = "Intel")
        host_gpu_to_check == IF nvidia_host_gpus # <<>> THEN nvidia_host_gpus[1]
                             ELSE IF intel_host_gpus # <<>> THEN intel_host_gpus[1]
                             ELSE host_gpus[1]
    IN  IF host_gpus = <<>> THEN FALSE
        ELSE host_gpu_to_check.driver # "" /\ host_gpu_to_check.driver # "None"

-----------------------------------------------------------------------------
(* get_kernel_cmdline (bootloader.py 15-22) and check_iommu                *)
(* (checks.py 214-238)                                                     *)

\* e.cmdline is None when /proc/cmdline cannot be read
get_kernel_cmdline(e) == IF e.cmdline = None THEN "" ELSE Strip(e.cmdline[1])

\* (iommu_enabled, iommu_pt)
check_iommu(cmdline) ==
    <<Contains("amd_iommu=on", cmdline) \/ Contains("intel_iommu=on", cmdline),
      Contains("iommu=pt", cmdline)>>

-----------------------------------------------------------------------------
(* get_iommu_groups  (pci.py 293-408)                                      *)
(* /sys/kernel/iommu_groups is e.sysfs: [exists, readable, entries]; an    *)
(* entry is [name, is_dir, has_devices, readable, links]; a link is        *)
(* [name, class, vendor, device, readable] with None for a missing file.   *)

\* lines 308-322 return None before the PCI map is asked for
GroupDirs(e) == SelectSeq(e.sysfs.entries, LAMBDA d : d.is_dir)
IommuReturnsEarly(e) == ~e.sysfs.exists \/ ~e.sysfs.readable \/ GroupDirs(e) = <<>>

\* get_iommu_groups that files every device under group 0
get_iommu_groups_one_group(e, pci_result) ==
    LET RECURSIVE AllDevices(_)
        AllDevices(dirs) ==
            IF dirs = <<>> THEN <<>>
            ELSE [i \in 1..Len(Head(dirs).links) |-> [bdf |-> Head(dirs).links[i].name]] \o AllDevices(Tail(dirs))
    IN  Return(Some(<<[id |-> 0, devices |-> AllDevices(GroupDirs(e))]>>))

\* get_iommu_groups without the check of line 389: an empty mapping is returned
get_iommu_groups_empty_mapping(e, pci_result) ==
    Return(Some(<<>>))

\* lines 324-408, given what get_pci_devices_mm returned
get_iommu_groups(e, pci_result) ==
    LET
        \* sorted(groups, key=lambda d: int(d.name)) for names that int() accepts
        RECURSIVE InsertByKey(_, _)
        InsertByKey(d, sorted) ==
            IF sorted = <<>> THEN <<d>>
            ELSE IF ParseInt(d.name)[1] < ParseInt(Head(sorted).name)[1] THEN <<d>> \o sorted
            ELSE <<Head(sorted)>> \o InsertByKey(d, Tail(sorted))

        RECURSIVE SortedGroupDirs(_)
        SortedGroupDirs(dirs) ==
            IF dirs = <<>> THEN <<>>
            ELSE InsertByKey(dirs[Len(dirs)], SortedGroupDirs(SubSeq(dirs, 1, Len(dirs) - 1)))

        \* the sysfs fallback of lines 354-379
        SysfsInfo(link) ==
            LET
                \* the class text of lines 360-365
                SysfsClass(device_class) ==
                    IF SubSeq(device_class, 1, 4) = "0x03" /\ Len(device_class) >= 4 THEN "Display Controller"
                    ELSE IF SubSeq(device_class, 1, 4) = "0x04" /\ Len(device_class) >= 4 THEN "Multimedia Controller"
                    ELSE "PCI Device (Class: " \o device_class \o ")"
            IN
                LET base == [bdf |-> link.name]
                    cls  == IF link.class # None THEN [class |-> SysfsClass(Strip(link.class[1]))] ELSE <<>>
                    ids  == IF link.vendor # None /\ link.device # None
                            THEN [vendor_id |-> SubSeq(Strip(link.vendor[1]), 3, Len(Strip(link.vendor[1]))),
                                  device_id |-> SubSeq(Strip(link.device[1]), 3, Len(Strip(link.device[1])))]
                            ELSE <<>>
                IN  IF ~link.readable /\ (link.class # None \/ (link.vendor # None /\ link.device # None))
                    THEN base
                    ELSE IF cls = <<>> /\ ids = <<>> THEN base
                    ELSE IF cls = <<>> THEN ids @@ base
                    ELSE IF ids = <<>> THEN cls @@ base
                    ELSE ids @@ cls @@ base

        \* device_info of lines 344-379
        GroupDeviceInfo(link, pci_devices) ==
            IF DictHas(pci_devices, link.name) THEN DictAt(pci_devices, link.name) ELSE SysfsInfo(link)

        \* iommu_map[group_id] = devices: an existing key keeps its place
        GroupSet(iommu_map, group) ==
            IF \E i \in 1..Len(iommu_map) : iommu_map[i].id = group.id
            THEN [i \in 1..Len(iommu_map) |-> IF iommu_map[i].id = group.id THEN group ELSE iommu_map[i]]
            ELSE Append(iommu_map, group)

        \* the loop of lines 330-387 over the sorted group directories;
        \* AddGroup is line 383-384 for the devices of the first directory
        RECURSIVE BuildIommuMap(_, _, _)
        BuildIommuMap(dirs, pci_devices, iommu_map) ==
            LET AddGroup(devices_in_group) ==
                    IF devices_in_group = <<>> THEN BuildIommuMap(Tail(dirs), pci_devices, iommu_map)
                    ELSE BuildIommuMap(Tail(dirs), pci_devices,
                                       GroupSet(iommu_map, [id |-> ParseInt(Head(dirs).name)[1], devices |-> devices_in_group]))
            IN  IF dirs = <<>> THEN iommu_map
                ELSE IF ~Head(dirs).has_devices \/ ~Head(dirs).readable
                     THEN BuildIommuMap(Tail(dirs), pci_devices, iommu_map)
                     ELSE AddGroup([i \in 1..Len(Head(dirs).links) |-> GroupDeviceInfo(Head(dirs).links[i], pci_devices)])

        \* lines 389-408
        IommuMapResult(iommu_map) ==
            IF iommu_map = <<>> THEN Return(None) ELSE Return(Some(iommu_map))
    IN
        IF \E i \in 1..Len(GroupDirs(e)) : ParseInt(GroupDirs(e)[i].name) = None THEN Raise("ValueError")
        ELSE IommuMapResult(BuildIommuMap(SortedGroupDirs(GroupDirs(e)),
                                          IF pci_result = None THEN <<>> ELSE pci_result[1], <<>>))

-----------------------------------------------------------------------------
(* get_device_ids  (pci.py 504-530)                                        *)

\* sorted(list(ids))
RECURSIVE SortedTexts(_)
SortedTexts(ids) ==
    LET
        \* the characters of the texts in code order, for sorted() on texts
        Ascii ==
            "\"-.0123456789:=ABCDEFGHIJKLMNOPQRSTUVWXYZ\\_abcdefghijklmnopqrstuvwxyz"

        Ord(c) ==
            CHOOSE i \in 1..Len(Ascii) : Char(Ascii, i) = c

        \* a < b for texts
        RECURSIVE StrLess(_, _)
        StrLess(a, b) ==
            IF Len(b) = 0 THEN FALSE
            ELSE IF Len(a) = 0 THEN TRUE
            ELSE IF Char(a, 1) = Char(b, 1) THEN StrLess(SubSeq(a, 2, Len(a)), SubSeq(b, 2, Len(b)))
            ELSE Ord(Char(a, 1)) < Ord(Char(b, 1))
    IN
        IF ids = {} THEN <<>>
        ELSE LET m == CHOOSE x \in ids : \A y \in ids \ {x} : StrLess(x, y)
             IN  <<m>> \o SortedTexts(ids \ {m})

\* the ids set of lines 514-519
DeviceIdSet(related_devices) ==
    {Get(related_devices[i].device, "vendor_id", "") \o ":" \o Get(related_devices[i].device, "device_id", "") :
        i \in {j \in 1..Len(related_devices) :
                 /\ Get(related_devices[j].device, "vendor_id", "") # ""
                 /\ Get(related_devices[j].device, "device_id", "") # ""}}

\* get_device_ids with a list in place of the set of line 514: one entry per
\* device, repeated pairs kept
get_device_ids_keeps_duplicates(related_devices) ==
    LET with_ids == SelectSeq(related_devices,
                              LAMBDA r : Get(r.device, "vendor_id", "") # "" /\ Get(r.device, "device_id", "") # "")
    IN  [i \in 1..Len(with_ids) |-> with_ids[i].device.vendor_id \o ":" \o with_ids[i].device.device_id]

\* get_device_ids without the test of line 518: a pair for every device
get_device_ids_unfiltered(related_devices) ==
    SortedTexts({Get(related_devices[i].device, "vendor_id", "") \o ":" \o Get(related_devices[i].device, "device_id", "") :
                    i \in 1..Len(related_devices)})

\* get_device_ids that reads only the first related device
get_device_ids_first_only(related_devices) ==
    SortedTexts(DeviceIdSet(SubSeq(related_devices, 1, 1)))

get_device_ids(related_devices) == SortedTexts(DeviceIdSet(related_devices))

\* get_device_ids of the standalone script (vfio.py 565-577): the first
\* [vendor:device] of each description, in order of first appearance
get_device_ids_vfio_py(devices) ==
    LET
        WordChars ==
            "0123456789ABCDEFGHIJKLMNOPQRSTUVWXYZ_abcdefghijklmnopqrstuvwxyz"

        IsWordChar(c) ==
            c # "" /\ Contains(c, WordChars)

        \* the position after the run of word characters that starts at i
        RECURSIVE WordRunEnd(_, _)
        WordRunEnd(text, i) ==
            IF IsWordChar(Char(text, i)) THEN WordRunEnd(text, i + 1) ELSE i

        \* re.search(r'\[(\w+):(\w+)\]', text) from position i on: the two groups
        RECURSIVE IdSearch(_, _)
        IdSearch(text, i) ==
            IF i > Len(text) THEN None
            ELSE LET v_end == WordRunEnd(text, i + 1)
                     d_end == WordRunEnd(text, v_end + 1)
                 IN  IF /\ Char(text, i) = "["
                        /\ v_end > i + 1
                        /\ Char(text, v_end) = ":"
                        /\ d_end > v_end + 1
                        /\ Char(text, d_end) = "]"
                     THEN Some(<<SubSeq(text, i + 1, v_end - 1), SubSeq(text, v_end + 1, d_end - 1)>>)
                     ELSE IdSearch(text, i + 1)

        \* the loop of lines 568-575 from device i on
        RECURSIVE Collect(_, _)
        Collect(i, ids) ==
            IF i > Len(devices) THEN ids
            ELSE LET match == IdSearch(devices[i].description, 1)
                     id_pair == match[1][1] \o ":" \o match[1][2]
                 IN  IF match # None /\ \A k \in 1..Len(ids) : ids[k] # id_pair
                     THEN Collect(i + 1, Append(ids, id_pair))
                     ELSE Collect(i + 1, ids)
    IN
        Collect(1, <<>>)

\* the length of a related-device list
MaxRelated == 3

\* related-device lists: (device_dict, group_id) pairs whose dicts hold both
\* IDs, the same IDs as another device, an empty ID, or lack one or both keys
RelatedLists ==
    LET
        DevicePool ==
            {[bdf |-> "0000:0b:00.0", vendor_id |-> "1002", device_id |-> "73bf",
              description |-> "VGA [0300]: Navi 21 [1002:73bf]"],
             [bdf |-> "0000:0b:00.1", vendor_id |-> "1002", device_id |-> "ab28",
              description |-> "Audio [1002:ab28]"],
             [bdf |-> "0000:0b:00.2", vendor_id |-> "1002", device_id |-> "73bf",
              description |-> "USB [1002:73bf]"],
             [bdf |-> "0000:0b:00.3", vendor_id |-> "1002", device_id |-> "",
              description |-> "Serial [0c80]"],
             [bdf |-> "0000:0b:00.4", device_id |-> "73a4",
              description |-> "Bridge"],
             [bdf |-> "0000:0b:00.5",
              description |-> ""]}
    IN
        UNION {[1..n -> {[device |-> d, group_id |-> 12] : d \in DevicePool}] : n \in 0..MaxRelated}

IdsIdle ==
    /\ ids_pc = "idle"
    /\ ids_related = <<>>
    /\ ids_result = <<>>

IdsInit ==
    /\ ids_pc = "call"
    /\ ids_related \in RelatedLists
    /\ ids_result = <<>>

\* system_info["passthrough_device_ids"] = get_device_ids(related_devices) in the package
GetDeviceIds ==
    /\ ids_pc = "call"
    /\ ids_result' = get_device_ids(ids_related)
    /\ ids_pc' = "pci.py"
    /\ UNCHANGED ids_related
    /\ UNCHANGED <<rel_vars, sel_vars, gather_vars, setup_vars, verify_vars, conf_vars>>

\* device_ids = get_device_ids(gpu_group_devices) in the standalone script
GetDeviceIdsVfioPy ==
    /\ ids_pc = "call"
    /\ ids_result' = get_device_ids_vfio_py([i \in 1..Len(ids_related) |-> ids_related[i].device])
    /\ ids_pc' = "vfio.py"
    /\ UNCHANGED ids_related
    /\ UNCHANGED <<rel_vars, sel_vars, gather_vars, setup_vars, verify_vars, conf_vars>>

IdsNext == GetDeviceIds \/ GetDeviceIdsVfioPy

-----------------------------------------------------------------------------
(* Claims about get_device_ids.                                            *)

\* the call of the revision that ran, made again on another list
GetDeviceIdsAgain(list) ==
    IF ids_pc = "vfio.py" THEN get_device_ids_vfio_py([i \in 1..Len(list) |-> list[i].device])
    ELSE get_device_ids(list)

IdTexts(ids) == {ids[i] : i \in 1..Len(ids)}

\* the reorderings of the related-device list
Reorderings ==
    {[i \in 1..Len(ids_related) |-> ids_related[p[i]]] :
        p \in {q \in [1..Len(ids_related) -> 1..Len(ids_related)] :
                  \A i, j \in 1..Len(ids_related) : q[i] = q[j] => i = j}}

\* C16: get_device_ids gives the same set of vendor:device pairs for every
\* reordering of the related-device list and for the list fed twice, and
\* the result holds no pair twice.
C16_IdsOrderIndependent ==
    ids_pc \in {"pci.py", "vfio.py"} =>
        /\ \A list \in Reorderings : IdTexts(GetDeviceIdsAgain(list)) = IdTexts(ids_result)
        /\ GetDeviceIdsAgain(ids_related) = ids_result
        /\ IdTexts(GetDeviceIdsAgain(ids_related \o ids_related)) = IdTexts(ids_result)
        /\ \A list \in Reorderings \cup {ids_related \o ids_related} :
              \A i, j \in 1..Len(GetDeviceIdsAgain(list)) :
                  GetDeviceIdsAgain(list)[i] = GetDeviceIdsAgain(list)[j] => i = j

\* a list of three devices, two of them with the same IDs, gave two pairs
C16_Witness ==
    /\ ids_pc = "pci.py"
    /\ Len(ids_related) = 3
    /\ ids_related[1].device.bdf = "0000:0b:00.2"
    /\ ids_related[2].device.bdf = "0000:0b:00.1"
    /\ ids_related[3].device.bdf = "0000:0b:00.0"
    /\ ids_result = <<"1002:73bf", "1002:ab28">>

\* the record holds a vendor ID and a device ID, neither of them empty
HasBothIds(device) ==
    /\ "vendor_id" \in DOMAIN device /\ device.vendor_id # ""
    /\ "device_id" \in DOMAIN device /\ device.device_id # ""

\* C17: get_device_ids returns a pair for a record if and only if the
\* record holds both a vendor ID and a device ID; records with a missing or
\* empty ID are skipped, and the result is empty when every record is.
C17_IncompleteRecordsSkipped ==
    ids_pc = "pci.py" =>
        /\ \A i \in 1..Len(ids_related) :
              HasBothIds(ids_related[i].device) =>
                  (ids_related[i].device.vendor_id \o ":" \o ids_related[i].device.device_id) \in IdTexts(ids_result)
        /\ \A x \in IdTexts(ids_result) :
              \E i \in 1..Len(ids_related) :
                  /\ HasBothIds(ids_related[i].device)
                  /\ x = ids_related[i].device.vendor_id \o ":" \o ids_related[i].device.device_id
        /\ (\A i \in 1..Len(ids_related) : ~HasBothIds(ids_related[i].device)) => ids_result = <<>>

\* records with an empty device ID, without a vendor ID and without any ID
\* gave the empty result
C17_Witness ==
    /\ ids_pc = "pci.py"
    /\ Len(ids_related) = 3
    /\ ids_related[1].device.bdf = "0000:0b:00.3"
    /\ ids_related[2].device.bdf = "0000:0b:00.4"
    /\ ids_related[3].device.bdf = "0000:0b:00.5"
    /\ ids_result = <<>>

-----------------------------------------------------------------------------
(* The machine a discovery pass reads: the output of 'lspci -mm' and       *)
(* 'lspci -k' (None when the command fails), the IOMMU groups directory    *)
(* and /proc/cmdline.                                                      *)

\* lines of 'lspci -mm': device lines (Unclassified is a device of PCI class
\* 0000), lines that carry the domain and the numeric IDs in brackets
\* (AmdVgaId, AmdAudioId, NvidiaVgaId), and lines that
\* are not a full device line (ThreePart, TwoPart, Noise)
MmLine ==
    [AmdVga       |-> "0b:00.0 \"VGA compatible controller\" \"Advanced Micro Devices, Inc. [AMD/ATI]\" \"Navi 21 [Radeon RX 6800]\" -rc1 \"Sapphire\" \"Device e437\"",
     AmdAudio     |-> "0b:00.1 \"Audio device\" \"Advanced Micro Devices, Inc. [AMD/ATI]\" \"Navi 21 HDMI Audio\" \"Sapphire\" \"Device ab28\"",
     AmdVga2      |-> "0c:00.0 \"VGA compatible controller\" \"Advanced Micro Devices, Inc. [AMD/ATI]\" \"Ellesmere [Radeon RX 580]\" -re7 \"ASUS\" \"Device 0517\"",
     NvidiaVga    |-> "01:00.0 \"VGA compatible controller\" \"NVIDIA Corporation\" \"GA104 [GeForce RTX 3070]\" -ra1 \"eVga\" \"Device 3751\"",
     Nvidia3d     |-> "02:00.0 \"3D controller\" \"NVIDIA Corporation\" \"GP108M [GeForce MX150]\" -ra1 \"Lenovo\" \"Device 3801\"",
     IntelDisplay |-> "00:02.0 \"Display controller\" \"Intel Corporation\" \"UHD Graphics 630\" \"Dell\" \"Device 0871\"",
     HostBridge   |-> "00:00.0 \"Host bridge\" \"Intel Corporation\" \"8th Gen Core Host Bridge\" -r07 \"Dell\" \"Device 0871\"",
     AmdVgaId     |-> "0000:0b:00.0 \"VGA compatible controller [0300]\" \"Advanced Micro Devices, Inc. [AMD/ATI] [1002:73bf]\" \"Navi 21 [Radeon RX 6800]\"",
     AmdAudioId   |-> "0000:0b:00.1 \"Audio device [0403]\" \"Advanced Micro Devices, Inc. [AMD/ATI] [1002:ab28]\" \"Navi 21 HDMI Audio\"",
     NvidiaVgaId  |-> "0000:01:00.0 \"VGA compatible controller [0300]\" \"NVIDIA Corporation [10de:2484]\" \"GA104 [GeForce RTX 3070]\"",
     Unclassified |-> "00:1f.3 \"Non-VGA unclassified device\" \"Intel Corporation\" \"Device 1234\" -r07 \"Dell\" \"Device 0871\"",
     ThreePart    |-> "0e:00.0 \"Non-VGA unclassified device\" \"Realtek\"",
     TwoPart      |-> "0f:00.0 \"Unassigned class\"",
     Noise        |-> "pcilib: Cannot open /sys/bus/pci/devices"]

\* the outputs of 'lspci -mm'
MmListings ==
    { None,
      Some(<<>>),
      Some(<<MmLine.Noise, MmLine.TwoPart>>),
      Some(<<MmLine.AmdVga, MmLine.AmdAudio>>),
      Some(<<MmLine.AmdVgaId, MmLine.AmdAudioId>>),
      Some(<<MmLine.NvidiaVga, MmLine.AmdVga, MmLine.AmdAudio>>),
      Some(<<MmLine.AmdVgaId, MmLine.AmdAudioId, MmLine.NvidiaVgaId>>),
      Some(<<MmLine.AmdVga, MmLine.AmdVga2, MmLine.IntelDisplay>>),
      Some(<<MmLine.HostBridge, MmLine.Nvidia3d, MmLine.IntelDisplay>>),
      Some(<<MmLine.HostBridge, MmLine.Noise>>),
      Some(<<MmLine.HostBridge, MmLine.Unclassified>>),
      Some(<<MmLine.NvidiaVga, MmLine.AmdVga, MmLine.ThreePart>>) }

\* the outputs of 'lspci -k'
KListings ==
    { None,
      Some(<<"00:02.0 Display controller: Intel Corporation UHD Graphics 630",
             "\tKernel driver in use: i915",
             "01:00.0 VGA compatible controller: NVIDIA Corporation GA104",
             "\tSubsystem: eVga Device 3751",
             "\tKernel driver in use: nvidia",
             "\tKernel modules: nouveau, nvidia",
             "0b:00.0 VGA compatible controller: Advanced Micro Devices, Inc. [AMD/ATI] Navi 21",
             "\tKernel driver in use: amdgpu">>) }

GroupDir(name, links) ==
    [name |-> name, is_dir |-> TRUE, has_devices |-> TRUE, readable |-> TRUE, links |-> links]

\* the device links of a group directory
Links ==
    LET SysfsLink(name, class, vendor, device) ==
            [name |-> name, class |-> class, vendor |-> vendor, device |-> device, readable |-> TRUE]
    IN  [Gpu        |-> <<SysfsLink("0000:0b:00.0", Some("0x030000"), Some("0x1002"), Some("0x73bf")),
                          SysfsLink("0000:0b:00.1", Some("0x040300"), Some("0x1002"), Some("0xab28"))>>,
         Host       |-> <<SysfsLink("0000:01:00.0", Some("0x030000"), Some("0x10de"), Some("0x2484"))>>,
         Bridge     |-> <<SysfsLink("0000:00:00.0", Some("0x060000"), None, Some("0x3e30"))>>,
         Unreadable |-> <<[name |-> "0000:0b:00.0", class |-> Some("0x030000"), vendor |-> Some("0x1002"),
                           device |-> Some("0x73bf"), readable |-> FALSE]>>]

SysfsDir(entries) == [exists |-> TRUE, readable |-> TRUE, entries |-> entries]

\* the states of /sys/kernel/iommu_groups
SysfsTrees ==
    { [exists |-> FALSE, readable |-> TRUE, entries |-> <<>>],
      [exists |-> TRUE, readable |-> FALSE, entries |-> <<>>],
      SysfsDir(<<>>),
      SysfsDir(<<GroupDir("12", Links.Gpu)>>),
      SysfsDir(<<GroupDir("12", Links.Gpu), GroupDir("2", Links.Host), GroupDir("0", Links.Bridge)>>),
      SysfsDir(<<GroupDir("12", Links.Unreadable), GroupDir("2", Links.Host)>>),
      SysfsDir(<<GroupDir("12", <<>>),
                 [name |-> "2", is_dir |-> TRUE, has_devices |-> FALSE, readable |-> TRUE, links |-> <<>>],
                 [name |-> "3", is_dir |-> TRUE, has_devices |-> TRUE, readable |-> FALSE, links |-> Links.Host],
                 [name |-> "uevent", is_dir |-> FALSE, has_devices |-> FALSE, readable |-> TRUE, links |-> <<>>]>>),
      SysfsDir(<<GroupDir("12", Links.Gpu), GroupDir("by-name", <<>>)>>) }

\* the contents of /proc/cmdline (None: the file cannot be read)
Cmdlines ==
    { None,
      Some("BOOT_IMAGE=/vmlinuz-linux root=/dev/sda2 rw quiet"),
      Some("BOOT_IMAGE=/vmlinuz-linux root=/dev/sda2 rw amd_iommu=on"),
      Some("BOOT_IMAGE=/vmlinuz-linux root=/dev/sda2 rw intel_iommu=on iommu=pt") }

Machines ==
    [lspci : {TRUE}, mm : MmListings, k : KListings, sysfs : SysfsTrees, cmdline : Cmdlines]
    \cup [lspci : {FALSE}, mm : {None}, k : {None}, sysfs : SysfsTrees, cmdline : Cmdlines]

-----------------------------------------------------------------------------
(* cached_result and _SYSTEM_CACHE  (utils.py 12-13, 52-76)                *)
(* The cache is a function from cache keys to the values stored.  A call   *)
(* of a function body is [out, cache, runs]: its outcome, the cache after  *)
(* it, and how many times the body of get_pci_devices_mm ran in it.        *)

EmptyCache == [k \in {} |-> None]

\* sep.join(texts)
RECURSIVE Join(_, _)
Join(texts, sep) ==
    IF texts = <<>> THEN ""
    ELSE IF Len(texts) = 1 THEN texts[1]
    ELSE texts[1] \o sep \o Join(Tail(texts), sep)

Body(out, cache, runs) == [out |-> out, cache |-> cache, runs |-> runs]

\* cached_result without the test of line 72: the function runs at every call
cached_result_always_runs(cache, cache_key, body) ==
    IF body.out.kind = "raise" THEN body
    ELSE Body(body.out, (cache_key :> body.out.value) @@ body.cache, body.runs)

\* wrapper of lines 63-75: body is the call of func against the same cache
cached_result(cache, cache_key, body) ==
    IF cache_key \in DOMAIN cache THEN Body(Return(cache[cache_key]), cache, 0)
    ELSE IF body.out.kind = "raise" THEN body
    ELSE Body(body.out, (cache_key :> body.out.value) @@ body.cache, body.runs)

-----------------------------------------------------------------------------
(* gather_system_info  (cli.py 40-118)                                     *)

\* the discovery part of the dict of lines 44-65
SystemInfo0 ==
    [iommu_enabled          |-> FALSE,
     iommu_passthrough_mode |-> FALSE,
     iommu_groups           |-> None,
     gpus                   |-> <<>>,
     gpu_for_passthrough    |-> None,
     host_gpu_driver_ok     |-> None,
     gpu_primary_group_id   |-> None,
     gpu_related_devices    |-> <<>>,
     passthrough_device_ids |-> <<>>]

\* gather_system_info(debug) on the machine e with the cache cache0, typed
\* being what the user types at the chooser: [info, cache, log, exc]
gather_system_info(e, typed, dbg, cache0) ==
    LET
        \* str(b) for a bool
        BoolStr(b) ==
            IF b THEN "True" ELSE "False"

        \* utils.py 64-70: arg_strs are the positional arguments, kwarg_strs the "k=v" texts
        CacheKey(key, arg_strs, kwarg_strs) ==
            IF arg_strs = <<>> /\ kwarg_strs = <<>> THEN key
            ELSE key \o "_" \o Join(arg_strs, "_") \o "_" \o Join(kwarg_strs, "_")

        \* get_pci_devices_mm(debug=debug) and get_iommu_groups(debug=debug)
        PciKey(dbg1) ==
            CacheKey("pci_devices_mm", <<>>, <<"debug=" \o BoolStr(dbg1)>>)

        IommuKey(dbg1) ==
            CacheKey("iommu_groups", <<>>, <<"debug=" \o BoolStr(dbg1)>>)

        \* one entry of the record of calls made during a pass
        Call(fn, body, prompted) ==
            [fn |-> fn, out |-> body.out, runs |-> body.runs, prompted |-> prompted]

        \* the cached call get_pci_devices_mm(debug=dbg)
        CallPciDevices(e1, dbg1, cache) ==
            cached_result(cache, PciKey(dbg1), Body(get_pci_devices_mm(e1), cache, 1))

        \* the cached call get_iommu_groups(debug=dbg)
        IommuGroupsBody(e1, pci) ==
            IF pci.out.kind = "raise" THEN pci
            ELSE Body(get_iommu_groups(e1, pci.out.value), pci.cache, pci.runs)

        CallIommuGroups(e1, dbg1, cache) ==
            cached_result(cache, IommuKey(dbg1),
                IF IommuReturnsEarly(e1) THEN Body(Return(None), cache, 0)
                ELSE IommuGroupsBody(e1, CallPciDevices(e1, dbg1, cache)))

        \* the cached calls get_kernel_cmdline() (line 49, through
        \* check_kernel_cmdline_conflicts) and check_iommu() (line 68)
        CallKernelCmdline(e1, cache) ==
            cached_result(cache, "kernel_cmdline", Body(Return(get_kernel_cmdline(e1)), cache, 0))

        CheckIommuWith(cmdline) ==
            cached_result(cmdline.cache, "iommu_status",
                          Body(Return(check_iommu(cmdline.out.value)), cmdline.cache, 0))

        CallCheckIommu(e1, cache) ==
            CheckIommuWith(CallKernelCmdline(e1, cache))

        \* the value gather_system_info ends with: [info, cache, log, exc]; exc names
        \* the exception that leaves the function, None when it returns info
        Gathered(info, cache, log) ==
            [info |-> info, cache |-> cache, log |-> log, exc |-> None]

        GatherRaised(body, log) ==
            [info |-> SystemInfo0, cache |-> body.cache, log |-> log, exc |-> Some(body.out.exc)]

        \* lines 97-113, with what find_gpu_related_devices returned
        GatherRelated(info, cache, log, found) ==
            IF found.related = <<>>
            THEN Gathered([info EXCEPT !.gpu_primary_group_id = found.primary], cache, log)
            ELSE Gathered([info EXCEPT !.gpu_primary_group_id = found.primary,
                                       !.gpu_related_devices = found.related,
                                       !.passthrough_device_ids = get_device_ids(found.related)], cache, log)

        \* lines 94-113, with the call of get_iommu_groups made
        GatherGroups(info, log, groups) ==
            IF groups.out.kind = "raise" THEN GatherRaised(groups, Append(log, Call("get_iommu_groups", groups, FALSE)))
            ELSE IF groups.out.value = None
            THEN Gathered(info, groups.cache, Append(log, Call("get_iommu_groups", groups, FALSE)))
            ELSE GatherRelated([info EXCEPT !.iommu_groups = groups.out.value], groups.cache,
                               Append(log, Call("get_iommu_groups", groups, FALSE)),
                               find_gpu_related_devices(info.gpu_for_passthrough[1], groups.out.value))

        \* lines 78-92, with what find_gpu_for_passthrough returned
        GatherSelection(e1, dbg1, info, cache, log, chosen) ==
            IF chosen.result = None
            THEN Gathered(info, cache,
                          Append(log, Call("find_gpu_for_passthrough", Body(Return(None), cache, 0), chosen.prompted)))
            ELSE IF ~info.iommu_enabled
            THEN Gathered([info EXCEPT !.gpu_for_passthrough = chosen.result,
                                       !.host_gpu_driver_ok = Some(check_host_gpu_driver(info.gpus, chosen.result))],
                          cache,
                          Append(log, Call("find_gpu_for_passthrough", Body(Return(chosen.result), cache, 0), chosen.prompted)))
            ELSE GatherGroups([info EXCEPT !.gpu_for_passthrough = chosen.result,
                                           !.host_gpu_driver_ok = Some(check_host_gpu_driver(info.gpus, chosen.result))],
                              Append(log, Call("find_gpu_for_passthrough", Body(Return(chosen.result), cache, 0), chosen.prompted)),
                              CallIommuGroups(e1, dbg1, cache))

        \* lines 71-78, with what get_gpus returned
        GatherGpus(e1, typed1, dbg1, info, cache, log, gpus) ==
            IF gpus = <<>>
            THEN Gathered(info, cache, Append(log, Call("get_gpus", Body(Return(gpus), cache, 0), FALSE)))
            ELSE GatherSelection(e1, dbg1, [info EXCEPT !.gpus = gpus], cache,
                                 Append(log, Call("get_gpus", Body(Return(gpus), cache, 0), FALSE)),
                                 find_gpu_for_passthrough(gpus, typed1))

        \* line 71, with the call of get_pci_devices_mm that get_gpus makes
        GatherPci(e1, typed1, dbg1, iommu, pci) ==
            IF pci.out.kind = "raise"
            THEN GatherRaised(pci, <<Call("check_iommu", iommu, FALSE), Call("get_pci_devices_mm", pci, FALSE),
                                     Call("get_gpus", pci, FALSE)>>)
            ELSE GatherGpus(e1, typed1, dbg1,
                            [SystemInfo0 EXCEPT !.iommu_enabled = iommu.out.value[1],
                                                !.iommu_passthrough_mode = iommu.out.value[2]],
                            pci.cache,
                            <<Call("check_iommu", iommu, FALSE), Call("get_pci_devices_mm", pci, FALSE)>>,
                            get_gpus(pci.out.value))

        \* line 68, with the call of check_iommu made
        GatherIommu(e1, typed1, dbg1, iommu) ==
            GatherPci(e1, typed1, dbg1, iommu, CallPciDevices(e1, dbg1, iommu.cache))
    IN
        GatherIommu(e, typed, dbg, CallCheckIommu(e, cache0))

-----------------------------------------------------------------------------
(* The discovery pass as a process: main calls gather_system_info          *)
(* (cli.py 380-385); a caller that runs a further pass in the same process *)
(* finds the machine possibly changed and the cache as the last pass left  *)
(* it.                                                                     *)

MaxPasses == 2

\* what the user may type at the chooser
UserInputs == {"1", "2", "x"}

\* the machines of a process that runs several passes: the card plugged or
\* not, its driver rebound or not; /proc/cmdline is fixed while a kernel runs
PassMachines ==
    LET
        \* 'lspci -k' after the AMD GPU was bound to vfio-pci
        KListingRebound ==
            Some(<<"01:00.0 VGA compatible controller: NVIDIA Corporation GA104",
                   "\tKernel driver in use: nvidia",
                   "0b:00.0 VGA compatible controller: Advanced Micro Devices, Inc. [AMD/ATI] Navi 21",
                   "\tKernel driver in use: vfio-pci">>)
    IN
        [lspci  : {TRUE},
         mm     : {Some(<<MmLine.NvidiaVga, MmLine.AmdVga, MmLine.AmdAudio>>), Some(<<MmLine.NvidiaVga>>)},
         k      : {KListingRebound, None},
         sysfs  : {SysfsDir(<<GroupDir("12", Links.Gpu), GroupDir("2", Links.Host), GroupDir("0", Links.Bridge)>>)},
         cmdline : {Some("BOOT_IMAGE=/vmlinuz-linux root=/dev/sda2 rw amd_iommu=on")}]

\* machines whose /sys/kernel/iommu_groups is a membership listing: each of
\* four functions is placed in one of the first MaxGroupId group directories
\* or in none, and the directory is listed in either order
GroupMachines ==
    LET
        GroupNames ==
            <<"2", "10", "12", "7", "110">>

        Placed ==
            {"0000:0b:00.0", "0000:0b:00.1", "0000:01:00.0", "0000:00:00.0"}

        PlacedOrder ==
            <<"0000:00:00.0", "0000:0b:00.1", "0000:01:00.0", "0000:0b:00.0">>

        PlacedLink(addr) ==
            [name |-> addr, class |-> Some("0x030000"), vendor |-> Some("0x1002"), device |-> Some("0x73bf"),
             readable |-> TRUE]

        MemberLinks(place, slot) ==
            LET members == SelectSeq(PlacedOrder, LAMBDA a : place[a] = slot)
            IN  [i \in 1..Len(members) |-> PlacedLink(members[i])]

        RECURSIVE PlacedDirs(_, _)
        PlacedDirs(place, slot) ==
            IF slot > MaxGroupId THEN <<>>
            ELSE (IF MemberLinks(place, slot) = <<>> THEN <<>>
                  ELSE <<GroupDir(GroupNames[slot], MemberLinks(place, slot))>>)
                 \o PlacedDirs(place, slot + 1)

        Reversed(dirs) ==
            [i \in 1..Len(dirs) |-> dirs[Len(dirs) + 1 - i]]
    IN
        [lspci   : {TRUE},
         mm      : {Some(<<MmLine.NvidiaVga, MmLine.AmdVga, MmLine.AmdAudio>>),
                    Some(<<MmLine.AmdVgaId, MmLine.AmdAudioId, MmLine.NvidiaVgaId>>)},
         k       : {None},
         sysfs   : UNION {{SysfsDir(PlacedDirs(place, 1)), SysfsDir(Reversed(PlacedDirs(place, 1)))} :
                             place \in [Placed -> 0..MaxGroupId]},
         cmdline : {Some("BOOT_IMAGE=/vmlinuz-linux root=/dev/sda2 rw amd_iommu=on")}]

GatherIdle ==
    /\ machine = [lspci |-> FALSE, mm |-> None, k |-> None,
                  sysfs |-> [exists |-> FALSE, readable |-> TRUE, entries |-> <<>>], cmdline |-> None]
    /\ user_input = ""
    /\ debug = FALSE
    /\ SYSTEM_CACHE = EmptyCache
    /\ system_info = SystemInfo0
    /\ call_log = <<>>
    /\ g_pc = "idle"
    /\ pass_no = 0

GatherStart ==
    /\ user_input \in UserInputs
    /\ debug \in BOOLEAN
    /\ SYSTEM_CACHE = EmptyCache
    /\ system_info = SystemInfo0
    /\ call_log = <<>>
    /\ g_pc = "start"
    /\ pass_no = 1

GatherSystemInfo ==
    /\ g_pc = "start"
    /\ \E r \in {gather_system_info(machine, user_input, debug, SYSTEM_CACHE)} :
           /\ system_info' = r.info
           /\ SYSTEM_CACHE' = r.cache
           /\ call_log' = r.log
           /\ g_pc' = IF r.exc = None THEN "done" ELSE "raised"
    /\ UNCHANGED <<machine, user_input, debug, pass_no>>
    /\ UNCHANGED <<rel_vars, sel_vars, setup_vars, ids_vars, verify_vars, conf_vars>>

NewDiscoveryPass ==
    /\ g_pc \in {"done", "raised"}
    /\ pass_no < MaxPasses
    /\ machine' \in PassMachines
    /\ pass_no' = pass_no + 1
    /\ system_info' = SystemInfo0
    /\ call_log' = <<>>
    /\ g_pc' = "start"
    /\ UNCHANGED <<user_input, debug, SYSTEM_CACHE>>
    /\ UNCHANGED <<rel_vars, sel_vars, setup_vars, ids_vars, verify_vars, conf_vars>>

GatherNext == GatherSystemInfo
PassesNext == GatherSystemInfo \/ NewDiscoveryPass

-----------------------------------------------------------------------------
(* Claims about the discovery pass.                                        *)

GatherDone == g_pc = "done"

\* the entries of call_log for the function fn
CallsOf(fn) == SelectSeq(call_log, LAMBDA c : c.fn = fn)

\* the bus addresses gather_system_info reports as related
GatheredRelatedAddrs ==
    {system_info.gpu_related_devices[i].device.bdf : i \in 1..Len(system_info.gpu_related_devices)}

\* the kernel command line turns the IOMMU on
IommuOnCmdline ==
    machine.cmdline \in {Some("BOOT_IMAGE=/vmlinuz-linux root=/dev/sda2 rw amd_iommu=on"),
                         Some("BOOT_IMAGE=/vmlinuz-linux root=/dev/sda2 rw intel_iommu=on iommu=pt")}

\* the machine of the scenario: functions 0b:00.0 (VGA, 1002:73bf) and 0b:00.1
\* (Audio, 1002:ab28), both in IOMMU group 12, and nothing else
ScenarioMachine ==
    /\ machine.lspci
    /\ machine.mm \in {Some(<<MmLine.AmdVga, MmLine.AmdAudio>>), Some(<<MmLine.AmdVgaId, MmLine.AmdAudioId>>)}
    /\ machine.sysfs = SysfsDir(<<GroupDir("12", Links.Gpu)>>)
    /\ IommuOnCmdline

\* the same two functions in group 12 next to an NVIDIA display device 01:00.0
ScenarioMachineWithHostGpu ==
    /\ machine.lspci
    /\ machine.mm \in {Some(<<MmLine.NvidiaVga, MmLine.AmdVga, MmLine.AmdAudio>>),
                       Some(<<MmLine.AmdVgaId, MmLine.AmdAudioId, MmLine.NvidiaVgaId>>)}
    /\ machine.sysfs \in {SysfsDir(<<GroupDir("12", Links.Gpu)>>),
                          SysfsDir(<<GroupDir("12", Links.Gpu), GroupDir("2", Links.Host), GroupDir("0", Links.Bridge)>>)}
    /\ IommuOnCmdline

\* the selection, the related records and the ID pairs the scenario expects
ScenarioOutcome ==
    /\ system_info.gpu_for_passthrough # None
    /\ ShortBdf(system_info.gpu_for_passthrough[1].bdf) = "0b:00.0"
    /\ \A i \in 1..Len(CallsOf("find_gpu_for_passthrough")) : ~CallsOf("find_gpu_for_passthrough")[i].prompted
    /\ GatheredRelatedAddrs = {"0000:0b:00.0", "0000:0b:00.1"}
    /\ Len(system_info.gpu_related_devices) = 2
    /\ system_info.gpu_primary_group_id = Some(12)
    /\ system_info.passthrough_device_ids = <<"1002:73bf", "1002:ab28">>

C7_DiscoveryNeverRaises ==
    /\ g_pc # "raised"
    /\ \A i \in 1..Len(call_log) : call_log[i].out.kind = "return"

\* C12: when /sys/kernel/iommu_groups is absent, get_iommu_groups returns
\* None (it does not raise), the pass stores no groups, and
\* find_gpu_related_devices called with these absent groups returns the
\* failure (no primary group, no related devices) for every display device.
C12_AbsentGroupsRejected ==
    (g_pc # "start" /\ ~machine.sysfs.exists) =>
        /\ \A i \in 1..Len(CallsOf("get_iommu_groups")) : CallsOf("get_iommu_groups")[i].out = Return(None)
        /\ system_info.iommu_groups = None
        /\ system_info.gpu_primary_group_id = None
        /\ system_info.gpu_related_devices = <<>>
        /\ \A i \in 1..Len(system_info.gpus) :
              find_gpu_related_devices(system_info.gpus[i], system_info.iommu_groups) = RelatedFailure

\* a pass on a machine without /sys/kernel/iommu_groups that asked for the groups
C12_Witness ==
    /\ GatherDone
    /\ ~machine.sysfs.exists
    /\ system_info.gpu_for_passthrough # None
    /\ Len(CallsOf("get_iommu_groups")) = 1
    /\ CallsOf("get_iommu_groups")[1].out = Return(None)
    /\ find_gpu_related_devices(system_info.gpu_for_passthrough[1], system_info.iommu_groups) = RelatedFailure

\* /sys/kernel/iommu_groups exists and can be listed, its group directories
\* have numeric names, and none of them holds a device that can be listed
NoGroupMembers ==
    /\ machine.sysfs.exists
    /\ machine.sysfs.readable
    /\ \A i \in 1..Len(GroupDirs(machine)) :
          /\ ParseInt(GroupDirs(machine)[i].name) # None
          /\ \/ ~GroupDirs(machine)[i].has_devices
             \/ ~GroupDirs(machine)[i].readable
             \/ GroupDirs(machine)[i].links = <<>>

\* C13: get_iommu_groups never returns an empty mapping: when the sysfs
\* path exists but holds no group directories, or no group directory holds
\* a member device, it returns None.
C13_NoGroupsIsAbsent ==
    /\ system_info.iommu_groups # Some(<<>>)
    /\ \A i \in 1..Len(CallsOf("get_iommu_groups")) :
          /\ CallsOf("get_iommu_groups")[i].out # Return(Some(<<>>))
          /\ NoGroupMembers => CallsOf("get_iommu_groups")[i].out = Return(None)

\* a pass that asked for the groups of a tree whose group directories are all empty
C13_Witness ==
    /\ GatherDone
    /\ NoGroupMembers
    /\ GroupDirs(machine) # <<>>
    /\ Len(CallsOf("get_iommu_groups")) = 1
    /\ CallsOf("get_iommu_groups")[1].out = Return(None)

\* the (address, group id) pairs of the listing under /sys/kernel/iommu_groups
ListedMemberships ==
    UNION {{<<GroupDirs(machine)[i].links[j].name, ParseInt(GroupDirs(machine)[i].name)[1]>> :
               j \in 1..Len(GroupDirs(machine)[i].links)} : i \in 1..Len(GroupDirs(machine))}

\* the (group index, member index) places at which a mapping holds an address
PlacesOf(iommu_map, addr) ==
    {p \in UNION {{<<g, j>> : j \in 1..Len(iommu_map[g].devices)} : g \in 1..Len(iommu_map)} :
        iommu_map[p[1]].devices[p[2]].bdf = addr}

\* C14: the mapping get_iommu_groups builds from a membership listing holds
\* every listed address exactly once, under the id of the group directory it
\* was listed in, and holds no other address; group ids are not repeated.
C14_MembershipRoundTrip ==
    \A c \in 1..Len(CallsOf("get_iommu_groups")) :
        LET out == CallsOf("get_iommu_groups")[c].out
            iommu_map == IF out.value = None THEN <<>> ELSE out.value[1]
        IN  /\ out.kind = "return"
            /\ \A m \in ListedMemberships :
                  /\ Cardinality(PlacesOf(iommu_map, m[1])) = 1
                  /\ \A p \in PlacesOf(iommu_map, m[1]) : iommu_map[p[1]].id = m[2]
            /\ \A g \in 1..Len(iommu_map) :
                  /\ \A j \in 1..Len(iommu_map[g].devices) :
                        <<iommu_map[g].devices[j].bdf, iommu_map[g].id>> \in ListedMemberships
                  /\ \A g2 \in 1..Len(iommu_map) : iommu_map[g].id = iommu_map[g2].id => g = g2

\* a pass over a listing of three groups, listed in descending order of ids
C14_Witness ==
    /\ GatherDone
    /\ Len(GroupDirs(machine)) = 3
    /\ GroupDirs(machine)[1].name = "12"
    /\ Cardinality(ListedMemberships) = 4
    /\ Len(CallsOf("get_iommu_groups")) = 1
    /\ system_info.iommu_groups # None
    /\ Len(system_info.iommu_groups[1]) = 3

\* the class text holds one of the three display markers
HasDisplayMarker(device_info) ==
    \/ Contains("vga compatible", Lower(Get(device_info, "class", "")))
    \/ Contains("3d controller", Lower(Get(device_info, "class", "")))
    \/ Contains("display controller", Lower(Get(device_info, "class", "")))

\* the functions get_pci_devices_mm parsed in this pass
ParsedFunctions ==
    IF CallsOf("get_pci_devices_mm") = <<>> \/ CallsOf("get_pci_devices_mm")[1].out.kind # "return"
       \/ CallsOf("get_pci_devices_mm")[1].out.value = None
    THEN <<>>
    ELSE CallsOf("get_pci_devices_mm")[1].out.value[1]

\* C15: get_gpus returns, once each and in discovery order, exactly the
\* parsed functions whose class text holds one of the display markers (VGA
\* compatible, 3D controller, display controller); when no function has
\* such a class it returns the empty list.
C15_DisplayDevicesListed ==
    \A c \in 1..Len(CallsOf("get_gpus")) :
        CallsOf("get_gpus")[c].out.kind = "return" =>
            LET listed == CallsOf("get_gpus")[c].out.value
                marked == SelectSeq(ParsedFunctions, HasDisplayMarker)
            IN  /\ Len(listed) = Len(marked)
                /\ \A i \in 1..Len(marked) : listed[i].bdf = marked[i].bdf

\* how many times the body of get_pci_devices_mm (the two lspci commands)
\* ran in the given calls of this pass
RECURSIVE RunsIn(_)
RunsIn(calls) == IF calls = <<>> THEN 0 ELSE Head(calls).runs + RunsIn(Tail(calls))

\* C20: within one discovery pass the body of get_pci_devices_mm runs at
\* most once: the call get_gpus makes runs it, and get_iommu_groups, called
\* afterwards with the same debug flag, gets the PCI map from the cache
\* without running it again.
C20_EnumerationRunsOnce ==
    g_pc # "start" =>
        /\ RunsIn(CallsOf("get_pci_devices_mm")) + RunsIn(CallsOf("get_iommu_groups")) <= 1
        /\ \A i \in 1..Len(CallsOf("get_iommu_groups")) : CallsOf("get_iommu_groups")[i].runs = 0
        /\ \A i \in 1..Len(CallsOf("get_pci_devices_mm")) :
              CallsOf("get_pci_devices_mm")[i].out.kind = "return" =>
                  \E key \in DOMAIN SYSTEM_CACHE :
                      /\ Contains("pci_devices_mm", key)
                      /\ SYSTEM_CACHE[key] = CallsOf("get_pci_devices_mm")[i].out.value

\* a pass in which get_gpus ran the enumeration and get_iommu_groups then
\* read the group directories and built a mapping
C20_Witness ==
    /\ GatherDone
    /\ ~IommuReturnsEarly(machine)
    /\ RunsIn(CallsOf("get_pci_devices_mm")) = 1
    /\ Len(CallsOf("get_iommu_groups")) = 1
    /\ CallsOf("get_iommu_groups")[1].out.value # None
    /\ CallsOf("get_iommu_groups")[1].runs = 0

\* what the bodies of the cached functions compute from the machine as it is now
CurrentPciDevices == get_pci_devices_mm(machine)
CurrentIommuGroups ==
    IF IommuReturnsEarly(machine) THEN Return(None)
    ELSE IF CurrentPciDevices.kind = "raise" THEN CurrentPciDevices
    ELSE get_iommu_groups(machine, CurrentPciDevices.value)
CurrentIommuStatus == Return(check_iommu(get_kernel_cmdline(machine)))

\* C8: the cache is rebuilt for each discovery pass: what get_pci_devices_mm,
\* get_iommu_groups and check_iommu return during a pass is the state of the
\* machine at that pass, also when an earlier pass of the same process saw
\* a different state.
C8_PassSeesCurrentState ==
    GatherDone =>
        \A i \in 1..Len(call_log) :
            /\ call_log[i].fn = "get_pci_devices_mm" => call_log[i].out = CurrentPciDevices
            /\ call_log[i].fn = "get_iommu_groups" => call_log[i].out = CurrentIommuGroups
            /\ call_log[i].fn = "check_iommu" => call_log[i].out = CurrentIommuStatus

-----------------------------------------------------------------------------
(* Claims about find_gpu_for_passthrough.                                  *)

\* the number a typed response stands for, if it is one
TypedNumber(t) ==
    CASE t = "1"   -> Some(1)
      [] t = "2"   -> Some(2)
      [] t = " 2 " -> Some(2)
      [] t = "3"   -> Some(3)
      [] t = "4"   -> Some(4)
      [] t = "0"   -> Some(0)
      [] t = "-1"  -> Some(0 - 1)
      [] OTHER     -> None

SelDone == sel_pc \in {"pci.py", "vfio.py"}

\* C3: when the chooser is asked among N>1 candidates, a response k with
\* 1<=k<=N returns candidate k-1 (0-based) and every other response (out of
\* range or not a number) is a selection failure, never a default or the
\* first candidate.
C3_ChooserIndexOrFailure ==
    (SelDone /\ sel_prompted) =>
        LET cands == AmdGpus(sel_gpus)
            k     == TypedNumber(sel_input)
        IN  IF k # None /\ 1 <= k[1] /\ k[1] <= Len(cands)
            THEN sel_result = Some(cands[k[1]])
            ELSE sel_result = None

\* C4 as stated: with exactly one candidate display device the package's
\* find_gpu_for_passthrough returns that device and never asks the user.
C4_SingleDisplayDeviceReturned ==
    (sel_pc = "pci.py" /\ Len(sel_gpus) = 1) =>
        sel_result = Some(sel_gpus[1]) /\ ~sel_prompted

\* C4 amended: with exactly one AMD display device and at least one non-AMD
\* display device (for the host) the package's find_gpu_for_passthrough
\* returns the AMD device without asking the user; a list of a single display
\* device is a selection failure, also without asking.
C4_SingleAmdWithHostGpu ==
    sel_pc = "pci.py" =>
        /\ (Len(AmdGpus(sel_gpus)) = 1 /\ NonAmdGpus(sel_gpus) # <<>>) =>
              sel_result = Some(AmdGpus(sel_gpus)[1]) /\ ~sel_prompted
        /\ Len(sel_gpus) = 1 => sel_result = None /\ ~sel_prompted

\* one AMD device next to a host GPU has been selected
C4_Witness ==
    /\ sel_pc = "pci.py"
    /\ Len(AmdGpus(sel_gpus)) = 1
    /\ NonAmdGpus(sel_gpus) # <<>>
    /\ sel_result = Some(AmdGpus(sel_gpus)[1])

-----------------------------------------------------------------------------
-----------------------------------------------------------------------------
(* The setup workflow: what it reads from and does to the installation.    *)
(* The installation is a record h of facts the run cannot change (the      *)
(* distribution id of /etc/os-release, the programs on PATH, whether the   *)
(* commands it executes succeed) and a record w of what the run can        *)
(* change: the paths that exist, the files whose content already carries   *)
(* the VFIO settings, and a journal of the run's effects (files written,   *)
(* directories created, backup copies made, commands executed, steps       *)
(* called) and the packages installed.  The run is root, so creating a     *)
(* directory and writing a file succeed; the content written is kept only  *)
(* as "carries the settings".                                              *)

Paths ==
    [MkinitcpioConf        |-> "/etc/mkinitcpio.conf",
     DracutConf            |-> "/etc/dracut.conf",
     DracutConfDir         |-> "/etc/dracut.conf.d",
     DracutVfioConf        |-> "/etc/dracut.conf.d/vfio.conf",
     BoosterYaml           |-> "/etc/booster.yaml",
     BoosterDir            |-> "/etc/booster.d",
     BoosterVfioYaml       |-> "/etc/booster.d/vfio.yaml",
     InitramfsToolsDir     |-> "/etc/initramfs-tools",
     InitramfsToolsModules |-> "/etc/initramfs-tools/modules",
     SysconfigKernel       |-> "/etc/sysconfig/kernel",
     ModprobeDir           |-> "/etc/modprobe.d",
     ModprobeVfioConf      |-> "/etc/modprobe.d/vfio.conf",
     ModulesLoadDir        |-> "/etc/modules-load.d",
     ModulesLoadConf       |-> "/etc/modules-load.d/vfio-pci-load.conf",
     GrubDefault           |-> "/etc/default/grub",
     ArchRelease           |-> "/etc/arch-release",
     BootDir               |-> "/boot",
     SnapshotsDir          |-> "/.snapshots",
     ExistingSnapshot      |-> "/.snapshots/vfio_setup_backup_20240101_000000"]

\* the value a called function hands back together with the installation it leaves
Outcome(ok, w) == [ok |-> ok, w |-> w]

\* Path(p).exists() / os.path.exists(p) / os.path.isfile(p) / os.path.isdir(p)
Exists(w, p) == p \in w.files

\* shutil.which(b)
Which(h, b) == b \in h.bins

\* open(p, 'w').write(...) / open(p, 'a').write(...) / Path(p).write_text(...)
WriteText(w, p) ==
    [w EXCEPT !.files = @ \cup {p}, !.written = @ \cup {p}, !.configured = @ \cup {p}]

\* os.makedirs(p, exist_ok=True) / Path(p).mkdir(parents=True, exist_ok=True)
MakeDirs(w, p) ==
    IF Exists(w, p) THEN w
    ELSE [w EXCEPT !.files = @ \cup {p}, !.created = @ \cup {p}]

\* the journal entry of a step of the workflow
Step(w, name) == [w EXCEPT !.steps = Append(@, name)]

\* s.startswith(pre)
StartsWith(s, pre) == Len(pre) <= Len(s) /\ SubSeq(s, 1, Len(pre)) = pre

\* utils.py 93-102: the commands run_command executes even in a dry run
IsReadOnly(command) ==
    LET
        ReadOnlyPrefixes ==
            {"grep ", "lspci ", "ls ", "df ", "cat ", "find ", "test ", "[ ", "uname ",
             "mokutil ", "findmnt ", "cmp ", "dmesg ", "id "}
    IN
        \/ \E prefix \in ReadOnlyPrefixes : StartsWith(command, prefix)
        \/ Contains("kernelstub -p", command)

\* run_command: in a dry run only a command with a read-only prefix is
\* executed, any other returns "DRY-RUN-SUCCESS" unexecuted; outside a dry
\* run the command is executed and the result is None when it fails.  ok is
\* "the result is not None".
run_command(h, w, command, dry_run) ==
    LET
        \* whether an executed command exits 0: the queries do ("pacman -Q" when
        \* the package is installed), the commands that change the installation do
        \* or do not, as the installation has it
        Succeeds(h1, w1, command1) ==
            IF IsReadOnly(command1) \/ command1 \in {"whoami", "sudo /usr/bin/btrfs subvolume get-default /"} THEN TRUE
            ELSE IF StartsWith(command1, "pacman -Q ")
            THEN \E package_name \in w1.packages : command1 = "pacman -Q " \o package_name \o " 2>/dev/null"
            ELSE h1.commands_succeed
    IN
        IF dry_run /\ ~IsReadOnly(command) THEN Outcome(TRUE, w)
        ELSE Outcome(Succeeds(h, w, command), [w EXCEPT !.commands = Append(@, command)])

\* create_timestamped_backup / backup_file: nothing for a missing file and
\* nothing in a dry run, else the backups directory is made and the file copied
create_timestamped_backup(w, p, dry_run) ==
    IF ~Exists(w, p) \/ dry_run THEN w
    ELSE [w EXCEPT !.backups = @ \cup {p}]

\* ensure_mkinitcpio_modules(modules, debug): no dry_run parameter
ensure_mkinitcpio_modules(w) ==
    IF ~Exists(w, Paths.MkinitcpioConf) THEN Outcome(FALSE, w)
    ELSE IF Paths.MkinitcpioConf \in w.configured
         THEN Outcome(TRUE, create_timestamped_backup(w, Paths.MkinitcpioConf, FALSE))
         ELSE Outcome(TRUE, WriteText(create_timestamped_backup(w, Paths.MkinitcpioConf, FALSE),
                                      Paths.MkinitcpioConf))

\* ensure_dracut_modules(modules, debug): no dry_run parameter
ensure_dracut_modules(w) ==
    Outcome(TRUE, WriteText(create_timestamped_backup(MakeDirs(w, Paths.DracutConfDir),
                                                      Paths.DracutVfioConf, FALSE),
                            Paths.DracutVfioConf))

\* ensure_booster_modules(modules, debug): no dry_run parameter
ensure_booster_modules(w) ==
    Outcome(TRUE, WriteText(create_timestamped_backup(MakeDirs(w, Paths.BoosterDir),
                                                      Paths.BoosterVfioYaml, FALSE),
                            Paths.BoosterVfioYaml))

\* ensure_initramfs_modules_debian(modules, debug): no dry_run parameter
ensure_initramfs_modules_debian(w) ==
    IF ~Exists(w, Paths.InitramfsToolsModules) THEN Outcome(FALSE, w)
    ELSE IF Paths.InitramfsToolsModules \in w.configured
         THEN Outcome(TRUE, create_timestamped_backup(w, Paths.InitramfsToolsModules, FALSE))
         ELSE Outcome(TRUE, WriteText(create_timestamped_backup(w, Paths.InitramfsToolsModules, FALSE),
                                      Paths.InitramfsToolsModules))

\* ensure_suse_modules(modules, debug): no dry_run parameter
ensure_suse_modules(w) ==
    IF Exists(w, Paths.SysconfigKernel)
    THEN IF Paths.SysconfigKernel \in w.configured
         THEN Outcome(TRUE, create_timestamped_backup(w, Paths.SysconfigKernel, FALSE))
         ELSE Outcome(TRUE, WriteText(create_timestamped_backup(w, Paths.SysconfigKernel, FALSE),
                                      Paths.SysconfigKernel))
    ELSE IF Exists(w, Paths.DracutConfDir) THEN ensure_dracut_modules(w)
    ELSE Outcome(FALSE, w)

\* get_kernel_version(): runs "uname -r" outside any dry run; the version
\* decides only whether vfio_virqfd joins the module list that is written
get_kernel_version(h, w) == run_command(h, w, "uname -r", FALSE).w

\* update_mkinitcpio(dry_run, debug)
update_mkinitcpio(h, w, dry_run) ==
    IF dry_run THEN Outcome(TRUE, w)
    ELSE run_command(h, w, "mkinitcpio -P", FALSE)

\* the Arch way of running dracut: "uname -r", os.makedirs("/boot"), then the
\* dry-run test, then the command
DracutOnArch(h, w, dry_run) ==
    LET
        \* "6.8.0" is what "uname -r" prints
        DracutArchCommand ==
            "dracut -f /boot/initramfs-6.8.0.img 6.8.0"
    IN
        IF dry_run THEN Outcome(TRUE, MakeDirs(run_command(h, w, "uname -r", FALSE).w, Paths.BootDir))
        ELSE run_command(h, MakeDirs(run_command(h, w, "uname -r", FALSE).w, Paths.BootDir),
                         DracutArchCommand, FALSE)

\* update_dracut_custom(dry_run, debug, is_arch_based)
update_dracut_custom(h, w, dry_run, is_arch_based) ==
    IF is_arch_based THEN DracutOnArch(h, w, dry_run)
    ELSE IF dry_run THEN Outcome(TRUE, w)
    ELSE run_command(h, w, "dracut --force", FALSE)

\* update_booster(dry_run, debug)
update_booster(h, w, dry_run) ==
    IF dry_run THEN Outcome(TRUE, w)
    ELSE run_command(h, w, "booster build", FALSE)

\* update_initramfs_debian_based(dry_run, debug): the result of
\* ensure_initramfs_modules_debian is not looked at
update_initramfs_debian_based(h, w, dry_run) ==
    IF ~Which(h, "update-initramfs") THEN Outcome(FALSE, w)
    ELSE IF dry_run
         THEN Outcome(TRUE, ensure_initramfs_modules_debian(get_kernel_version(h, w)).w)
         ELSE run_command(h, ensure_initramfs_modules_debian(get_kernel_version(h, w)).w,
                          "update-initramfs -u -k all", FALSE)

\* update_initramfs_fedora_based(dry_run, debug)
update_initramfs_fedora_based(h, w, dry_run) ==
    IF ~Which(h, "dracut") THEN Outcome(FALSE, w)
    ELSE IF dry_run
         THEN Outcome(TRUE, ensure_dracut_modules(get_kernel_version(h, w)).w)
         ELSE run_command(h, ensure_dracut_modules(get_kernel_version(h, w)).w,
                          "dracut -f", FALSE)

\* update_initramfs_arch_based(dry_run, debug)
update_initramfs_arch_based(h, w, dry_run) ==
    LET
        \* update_initramfs_arch_based, after "mkinitcpio -P" failed: one
        \* "mkinitcpio -p <kernel>" per directory that "ls /usr/lib/modules/" lists
        ArchPerKernel(h1, w1) ==
            run_command(h1, run_command(h1, w1, "ls /usr/lib/modules/", FALSE).w,
                        "mkinitcpio -p 6.8.0", FALSE)

        ArchAfterStandard(h1, r) ==
            IF r.ok THEN r ELSE ArchPerKernel(h1, r.w)

        \* update_initramfs_arch_based, the dracut fallback when mkinitcpio.conf could
        \* not be prepared
        ArchDracutFallback(h1, w1, dry_run1) ==
            LET DracutAfterEnsure(e) == IF e.ok THEN DracutOnArch(h1, e.w, dry_run1) ELSE e
            IN  IF Which(h1, "dracut") THEN DracutAfterEnsure(ensure_dracut_modules(w1))
                ELSE Outcome(FALSE, w1)

        ArchAfterEnsure(h1, e, dry_run1) ==
            IF e.ok
            THEN IF dry_run1 THEN Outcome(TRUE, e.w)
                 ELSE ArchAfterStandard(h1, run_command(h1, e.w, "mkinitcpio -P", FALSE))
            ELSE ArchDracutFallback(h1, e.w, dry_run1)
    IN
        IF ~Which(h, "mkinitcpio") THEN Outcome(FALSE, w)
        ELSE ArchAfterEnsure(h, ensure_mkinitcpio_modules(get_kernel_version(h, w)), dry_run)

\* update_initramfs_suse_based(dry_run, debug)
update_initramfs_suse_based(h, w, dry_run) ==
    LET SuseAfterEnsure(e) ==
            IF ~e.ok THEN e
            ELSE IF dry_run THEN Outcome(TRUE, e.w)
            ELSE run_command(h, e.w, "mkinitrd", FALSE)
    IN  IF ~Which(h, "mkinitrd") THEN Outcome(FALSE, w)
        ELSE SuseAfterEnsure(ensure_suse_modules(get_kernel_version(h, w)))

\* update_initramfs_generic(dry_run, debug): the first method whose program is
\* on PATH and that succeeds
update_initramfs_generic(h, w, dry_run) ==
    LET \* "if not success: ..." after a method that did not succeed
        Unless(r, Try(_)) == IF r.ok THEN r ELSE Try(r.w)
    IN
    Unless(Unless(Unless(
        IF Which(h, "update-initramfs") THEN update_initramfs_debian_based(h, w, dry_run)
        ELSE Outcome(FALSE, w),
        LAMBDA v : IF Which(h, "dracut") THEN update_initramfs_fedora_based(h, v, dry_run)
                   ELSE Outcome(FALSE, v)),
        LAMBDA v : IF Which(h, "mkinitcpio") THEN update_initramfs_arch_based(h, v, dry_run)
                   ELSE Outcome(FALSE, v)),
        LAMBDA v : IF Which(h, "mkinitrd") THEN update_initramfs_suse_based(h, v, dry_run)
                   ELSE Outcome(FALSE, v))

\* detect_initramfs_systems(debug)
detect_initramfs_systems(h, w) ==
    {s \in {"mkinitcpio", "dracut", "booster", "debian"} :
        \/ s = "mkinitcpio" /\ (Exists(w, Paths.MkinitcpioConf) \/ Which(h, "mkinitcpio"))
        \/ s = "dracut" /\ (Exists(w, Paths.DracutConf) \/ Exists(w, Paths.DracutConfDir) \/ Which(h, "dracut"))
        \/ s = "booster" /\ (Exists(w, Paths.BoosterYaml) \/ Exists(w, Paths.BoosterDir) \/ Which(h, "booster"))
        \/ s = "debian" /\ (Exists(w, Paths.InitramfsToolsDir) \/ Which(h, "update-initramfs"))}

\* detect_default_initramfs_system(distro_name, detected_systems, debug)
detect_default_initramfs_system(w, distro_name, detected_systems) ==
    LET
        \* the file-based part of detect_default_initramfs_system
        DefaultByFiles(w1, detected_systems1) ==
            IF /\ \/ Exists(w1, "/usr/lib/dracut/dracut.conf.d")
                  \/ Exists(w1, "/usr/lib/kernel/install.d/50-dracut.install")
               /\ "dracut" \in detected_systems1 THEN Some("dracut")
            ELSE IF /\ \/ Exists(w1, "/usr/lib/kernel/install.d/50-mkinitcpio.install")
                       \/ Exists(w1, "/usr/share/libalpm/hooks/60-mkinitcpio-remove.hook")
                    /\ "mkinitcpio" \in detected_systems1 THEN Some("mkinitcpio")
            ELSE IF /\ \/ Exists(w1, "/usr/lib/kernel/install.d/50-booster.install")
                       \/ Exists(w1, "/usr/lib/booster")
                    /\ "booster" \in detected_systems1 THEN Some("booster")
            ELSE IF Cardinality(detected_systems1) = 1
                 THEN Some(CHOOSE s \in detected_systems1 : TRUE)
            ELSE None
    IN
        IF distro_name \in {"arch", "manjaro"}
        THEN IF "mkinitcpio" \in detected_systems THEN Some("mkinitcpio") ELSE None
        ELSE IF distro_name \in {"garuda", "endeavouros"} /\ "dracut" \in detected_systems
        THEN Some("dracut")
        ELSE IF distro_name \in {"garuda", "endeavouros"} /\ "mkinitcpio" \in detected_systems
        THEN Some("mkinitcpio")
        ELSE IF distro_name \in {"fedora", "centos", "rhel", "rocky", "alma"}
        THEN IF "dracut" \in detected_systems THEN Some("dracut") ELSE None
        ELSE IF distro_name \in {"ubuntu", "debian", "pop", "linuxmint", "elementary"}
        THEN IF "debian" \in detected_systems THEN Some("debian") ELSE None
        ELSE IF distro_name \in {"opensuse", "suse"}
        THEN IF "dracut" \in detected_systems THEN Some("dracut") ELSE None
        ELSE DefaultByFiles(w, detected_systems)

\* update_initramfs(dry_run, debug)
update_initramfs(h, w, dry_run) ==
    LET
        \* "if ensure_x(...): if update_x(...): success = True"
        Attempt(e, Update(_)) ==
            IF e.ok THEN Update(e.w) ELSE e

        \* "if not success: ..." after an attempt that did not succeed
        Unless(r, Try(_)) ==
            IF r.ok THEN r ELSE Try(r.w)

        \* "if 'x' in systems [and not success]: if ensure_x(...): if update_x(...)"
        TryMkinitcpio(h1, w1, dry_run1) ==
            Attempt(ensure_mkinitcpio_modules(w1), LAMBDA v : update_mkinitcpio(h1, v, dry_run1))

        TryDracut(h1, w1, dry_run1, is_arch_based) ==
            Attempt(ensure_dracut_modules(w1),
                    LAMBDA v : update_dracut_custom(h1, v, dry_run1, is_arch_based))

        TryBooster(h1, w1, dry_run1) ==
            Attempt(ensure_booster_modules(w1), LAMBDA v : update_booster(h1, v, dry_run1))

        TryDebian(h1, w1, dry_run1) ==
            Attempt(ensure_initramfs_modules_debian(w1),
                    LAMBDA v : update_initramfs_debian_based(h1, v, dry_run1))

        TryFedora(h1, w1, dry_run1) ==
            Attempt(ensure_dracut_modules(w1),
                    LAMBDA v : update_initramfs_fedora_based(h1, v, dry_run1))

        \* update_initramfs: "Try the default system first if we detected one"
        TryDefaultSystem(h1, w1, dry_run1, is_arch_based, systems, default_system) ==
            IF default_system = None THEN Outcome(FALSE, w1)
            ELSE IF default_system[1] \notin systems THEN Outcome(FALSE, w1)
            ELSE IF default_system[1] = "mkinitcpio" THEN TryMkinitcpio(h1, w1, dry_run1)
            ELSE IF default_system[1] = "dracut" THEN TryDracut(h1, w1, dry_run1, is_arch_based)
            ELSE IF default_system[1] = "booster" THEN TryBooster(h1, w1, dry_run1)
            ELSE TryDebian(h1, w1, dry_run1)

        \* update_initramfs: the distribution-specific approach
        TryDistribution(h1, w1, dry_run1, is_arch_based, systems) ==
            IF is_arch_based
            THEN Unless(IF "mkinitcpio" \in systems THEN TryMkinitcpio(h1, w1, dry_run1)
                        ELSE Outcome(FALSE, w1),
                        LAMBDA v : IF "dracut" \in systems THEN TryDracut(h1, v, dry_run1, is_arch_based)
                                   ELSE Outcome(FALSE, v))
            ELSE IF h1.distro \in {"ubuntu", "debian", "pop", "linuxmint", "elementary"} /\ "debian" \in systems THEN TryDebian(h1, w1, dry_run1)
            ELSE IF h1.distro \in {"fedora", "rhel", "centos", "rocky", "alma"} /\ "dracut" \in systems THEN TryFedora(h1, w1, dry_run1)
            ELSE Outcome(FALSE, w1)

        \* update_initramfs: the standard priority order
        TryPriorityOrder(h1, w1, dry_run1, is_arch_based, systems) ==
            Unless(Unless(Unless(
                IF "mkinitcpio" \in systems THEN TryMkinitcpio(h1, w1, dry_run1) ELSE Outcome(FALSE, w1),
                LAMBDA v : IF "dracut" \in systems THEN TryDracut(h1, v, dry_run1, is_arch_based)
                           ELSE Outcome(FALSE, v)),
                LAMBDA v : IF "booster" \in systems THEN TryBooster(h1, v, dry_run1)
                           ELSE Outcome(FALSE, v)),
                LAMBDA v : IF "debian" \in systems THEN TryDebian(h1, v, dry_run1)
                           ELSE Outcome(FALSE, v))

        UpdateInitramfsWith(h1, w1, dry_run1, is_arch_based, systems, default_system) ==
            Unless(Unless(Unless(
                TryDefaultSystem(h1, w1, dry_run1, is_arch_based, systems, default_system),
                LAMBDA v : TryDistribution(h1, v, dry_run1, is_arch_based, systems)),
                LAMBDA v : TryPriorityOrder(h1, v, dry_run1, is_arch_based, systems)),
                LAMBDA v : update_initramfs_generic(h1, v, dry_run1))
    IN
        IF detect_initramfs_systems(h, w) = {} THEN Outcome(FALSE, w)
        ELSE UpdateInitramfsWith(h, get_kernel_version(h, w), dry_run,
                                 h.distro \in {"arch", "manjaro", "endeavouros", "garuda"} \/ Exists(w, Paths.ArchRelease),
                                 detect_initramfs_systems(h, w),
                                 detect_default_initramfs_system(w, h.distro,
                                                                 detect_initramfs_systems(h, w)))

\* configure_vfio_modprobe(device_ids, dry_run, debug)
configure_vfio_modprobe(h, w, dry_run) ==
    LET
        \* a file the workflow rewrites only when its content differs from what it
        \* would write; the backup copy is made first, outside any dry run
        WriteIfStale(w1, p) ==
            IF p \in w1.configured THEN create_timestamped_backup(w1, p, FALSE)
            ELSE WriteText(create_timestamped_backup(w1, p, FALSE), p)

        \* configure_vfio_modprobe, step 1: /etc/modprobe.d/vfio.conf
        ModprobeOptions(w1, dry_run1) ==
            IF dry_run1 THEN w1
            ELSE WriteIfStale(MakeDirs(w1, Paths.ModprobeDir), Paths.ModprobeVfioConf)

        \* configure_vfio_modprobe, step 2: /etc/modules-load.d/vfio-pci-load.conf
        ModulesLoad(h1, w1, dry_run1) ==
            IF dry_run1 THEN get_kernel_version(h1, w1)
            ELSE WriteIfStale(get_kernel_version(h1, MakeDirs(w1, Paths.ModulesLoadDir)), Paths.ModulesLoadConf)

        \* configure_vfio_modprobe, step 3: the initramfs configurations, for every
        \* system detected and whatever dry_run is
        PrepareBooster(w1, systems) ==
            IF "booster" \in systems THEN ensure_booster_modules(w1).w ELSE w1

        PrepareDracut(w1, systems) ==
            PrepareBooster(IF "dracut" \in systems THEN ensure_dracut_modules(w1).w ELSE w1, systems)

        PrepareInitramfs(w1, systems) ==
            PrepareDracut(IF "mkinitcpio" \in systems THEN ensure_mkinitcpio_modules(w1).w ELSE w1,
                          systems)

        ConfigureInitramfsOf(h1, w1) ==
            PrepareInitramfs(w1, detect_initramfs_systems(h1, w1))
    IN
        Outcome(TRUE, ConfigureInitramfsOf(h, ModulesLoad(h, ModprobeOptions(w, dry_run), dry_run)))

\* input(prompt).lower() where the workflow asks, 'y' where it does not
Response(asks, answer) == IF asks THEN Lower(answer) ELSE "y"

\* create_btrfs_snapshot_recommendation(dry_run, debug)
create_btrfs_snapshot_recommendation(h, w, ans, dry_run) ==
    LET
        SnapshotName ==
            "vfio_setup_backup_20261101_120000"

        SnapshotResult(path, w1) ==
            [path |-> path, w |-> w1]

        \* create_btrfs_snapshot_recommendation: the outcome of the snapshot command
        SnapshotCreated(r, snapshot_path) ==
            IF r.ok THEN SnapshotResult(Some(snapshot_path),
                                        [r.w EXCEPT !.files = @ \cup {snapshot_path}])
            ELSE SnapshotResult(None, r.w)

        \* create_btrfs_snapshot_recommendation, after the subvolume query
        SnapshotAfterQuery(h1, w1, ans1, dry_run1, snapshot_path) ==
            IF dry_run1 THEN SnapshotResult(Some(snapshot_path), w1)
            ELSE IF Lower(ans1.create_snapshot) # "y" THEN SnapshotResult(None, w1)
            ELSE SnapshotCreated(run_command(h1, w1, "sudo /usr/bin/btrfs subvolume snapshot / "
                                                   \o snapshot_path, FALSE),
                                 snapshot_path)

        \* create_btrfs_snapshot_recommendation, once the base directory is known
        SnapshotIn(h1, w1, ans1, dry_run1, snapshot_base_dir) ==
            IF /\ Exists(w1, Paths.ExistingSnapshot) /\ snapshot_base_dir = Paths.SnapshotsDir
               /\ ~dry_run1 /\ Lower(ans1.use_existing) = "y"
            THEN SnapshotResult(Some(Paths.ExistingSnapshot), w1)
            ELSE IF ~Which(h1, "btrfs") THEN SnapshotResult(None, w1)
            ELSE SnapshotAfterQuery(h1, run_command(h1, w1, "sudo /usr/bin/btrfs subvolume get-default /", FALSE).w, ans1, dry_run1,
                                    snapshot_base_dir \o "/" \o SnapshotName)
    IN
        IF Exists(w, Paths.SnapshotsDir) THEN SnapshotIn(h, w, ans, dry_run, Paths.SnapshotsDir)
        ELSE IF Strip(ans.snapshot_path) = "" \/ ~Exists(w, Strip(ans.snapshot_path))
        THEN SnapshotResult(None, w)
        ELSE SnapshotIn(h, w, ans, dry_run, Strip(ans.snapshot_path))

\* packages.is_arch_based()
is_arch_based(h, w) == Exists(w, Paths.ArchRelease) \/ h.distro \in {"arch", "manjaro", "endeavouros", "garuda"}

Installation(status, installed, failed, w) ==
    [status |-> status, installed_packages |-> installed, failed_packages |-> failed, w |-> w]

\* install_minimal_qemu_packages(dry_run, debug)
install_minimal_qemu_packages(h, w, dry_run) ==
    LET
        QemuPackages ==
            <<"qemu-full", "libvirt", "virt-manager">>

        \* check_package_installed over a list: the packages found and those missing
        RECURSIVE CheckPackages(_, _, _, _, _, _)
        CheckPackages(h1, w1, packages, i, found, missing) ==
            LET CheckedPackage(r) ==
                    IF r.ok THEN CheckPackages(h1, r.w, packages, i + 1, Append(found, packages[i]), missing)
                    ELSE CheckPackages(h1, r.w, packages, i + 1, found, Append(missing, packages[i]))
            IN  IF i > Len(packages) THEN [found |-> found, missing |-> missing, w |-> w1]
                ELSE CheckedPackage(run_command(h1, w1, "pacman -Q " \o packages[i] \o " 2>/dev/null", FALSE))

        \* install_minimal_qemu_packages: the verification after "pacman -S"
        InstallVerified(installed_packages, v) ==
            Installation(v.missing = <<>>, installed_packages \o v.found, v.missing, v.w)

        InstallRun(h1, r, installed_packages, to_install) ==
            IF r.ok
            THEN InstallVerified(installed_packages,
                     CheckPackages(h1, [r.w EXCEPT !.packages = @ \cup {to_install[i] : i \in DOMAIN to_install}],
                                   to_install, 1, <<>>, <<>>))
            ELSE Installation(FALSE, installed_packages, to_install, r.w)

        InstallMissing(h1, c, dry_run1) ==
            IF c.missing = <<>> \/ dry_run1 THEN Installation(TRUE, c.found, <<>>, c.w)
            ELSE InstallRun(h1, run_command(h1, c.w, "sudo pacman -S --needed --noconfirm "
                                                   \o Join(c.missing, " "), FALSE),
                            c.found, c.missing)
    IN
        IF ~is_arch_based(h, w) \/ ~Which(h, "pacman") THEN Installation(FALSE, <<>>, <<>>, w)
        ELSE InstallMissing(h, CheckPackages(h, w, QemuPackages, 1, <<>>, <<>>), dry_run)

\* enable_libvirt_service(dry_run, debug)
enable_libvirt_service(h, w, dry_run) ==
    IF ~is_arch_based(h, w) \/ ~Which(h, "systemctl") THEN Outcome(FALSE, w)
    ELSE IF dry_run THEN Outcome(TRUE, w)
    ELSE LET Started(enabled) ==
                 IF enabled.ok
                 THEN run_command(h, enabled.w, "sudo systemctl start libvirtd.service", FALSE)
                 ELSE enabled
         IN  Started(run_command(h, w, "sudo systemctl enable libvirtd.service", FALSE))

\* configure_user_permissions(None, dry_run, debug)
configure_user_permissions(h, w, dry_run) ==
    IF ~is_arch_based(h, w) THEN Outcome(FALSE, w)
    ELSE IF dry_run THEN Outcome(TRUE, run_command(h, w, "whoami", FALSE).w)
    ELSE run_command(h, run_command(h, w, "whoami", FALSE).w,
                     "sudo usermod -a -G libvirt root", FALSE)

\* setup_minimal_qemu_environment(None, dry_run, debug)
setup_minimal_qemu_environment(h, w, dry_run) ==
    LET
        \* setup_minimal_qemu_environment, after the service step
        QemuAfterService(h1, install, service, user, dry_run1) ==
            Installation(\/ dry_run1
                         \/ /\ install.status
                            /\ (service.ok \/ install.failed_packages = <<>>)
                            /\ (user.ok \/ install.failed_packages = <<>>),
                         install.installed_packages, install.failed_packages, user.w)

        QemuAfterInstall(h1, install, service, dry_run1) ==
            QemuAfterService(h1, install, service, configure_user_permissions(h1, service.w, dry_run1),
                             dry_run1)

        QemuInstalled(h1, install, dry_run1) ==
            IF ~install.status /\ ~dry_run1
            THEN Installation(FALSE, install.installed_packages, install.failed_packages, install.w)
            ELSE QemuAfterInstall(h1, install, enable_libvirt_service(h1, install.w, dry_run1), dry_run1)
    IN
        IF ~is_arch_based(h, w) THEN Installation(FALSE, <<>>, <<>>, w)
        ELSE QemuInstalled(h, install_minimal_qemu_packages(h, w, dry_run), dry_run)

-----------------------------------------------------------------------------
(* interactive_setup (cli.py 121-307).  st is the handler's local state:   *)
(* setup_successful, changes, made_critical_changes, and the installation. *)

\* state.track_change: changes as the list of entries in the order tracked
track_change(changes, category, target, action) ==
    Append(changes, [category |-> category, target |-> target, action |-> action])

\* "return setup_successful, changes, made_critical_changes"
SetupReturns(st) ==
    [result |-> [kind |-> "return", setup_successful |-> st.setup_successful,
                 changes |-> st.changes, made_critical_changes |-> st.made_critical_changes],
     w |-> st.w]

\* lines 257-304: virtualization software
InstallStep(h, info, asks, ans, dry_run, st) ==
    LET
        AfterQemu(st1, setup_result_) ==
            IF setup_result_.status
            THEN [st1 EXCEPT !.changes = track_change(@, "packages", "qemu-minimal", "installed"),
                            !.w = setup_result_.w]
            ELSE [st1 EXCEPT !.setup_successful = FALSE, !.w = setup_result_.w]
    IN
        IF info.libvirt_installed THEN st
        ELSE IF is_arch_based(h, st.w) /\ Response(asks, ans.install) = "y"
        THEN AfterQemu(st, setup_minimal_qemu_environment(
                               h, Step(st.w, "setup_minimal_qemu_environment"), dry_run))
        ELSE st

\* the initramfs update without the test of made_critical_changes
InitramfsStep_without_critical_test(h, asks, ans, dry_run, st) ==
    IF Response(asks, ans.initramfs) = "y"
    THEN LET initramfs == update_initramfs(h, Step(st.w, "update_initramfs"), dry_run)
         IN  IF initramfs.ok
             THEN [st EXCEPT !.changes = track_change(@, "initramfs", "update", "executed"),
                             !.w = initramfs.w]
             ELSE [st EXCEPT !.setup_successful = FALSE, !.w = initramfs.w]
    ELSE st

\* lines 236-255: initramfs update
InitramfsStep(h, asks, ans, dry_run, st) ==
    LET
        AfterInitramfs(st1, initramfs) ==
            IF initramfs.ok
            THEN [st1 EXCEPT !.changes = track_change(@, "initramfs", "update", "executed"),
                            !.w = initramfs.w]
            ELSE [st1 EXCEPT !.setup_successful = FALSE, !.w = initramfs.w]
    IN
        IF st.made_critical_changes /\ Response(asks, ans.initramfs) = "y"
        THEN AfterInitramfs(st, update_initramfs(h, Step(st.w, "update_initramfs"), dry_run))
        ELSE st

\* the modprobe configuration without the test of line 206
ModprobeStep_without_ids_test(h, info, asks, ans, dry_run, st) ==
    IF Response(asks, ans.vfio_modprobe) = "y"
    THEN LET modprobe == configure_vfio_modprobe(h, Step(st.w, "configure_vfio_modprobe"), dry_run)
         IN  IF modprobe.ok
             THEN [st EXCEPT !.made_critical_changes = TRUE,
                             !.changes = track_change(
                                             track_change(@, "files", Paths.ModprobeVfioConf, "modified"),
                                             "files", Paths.ModulesLoadConf, "modified"),
                             !.w = modprobe.w]
             ELSE [st EXCEPT !.setup_successful = FALSE, !.w = modprobe.w]
    ELSE st

\* lines 203-234: VFIO modprobe configuration
ModprobeStep(h, info, asks, ans, dry_run, st) ==
    LET
        AfterModprobe(st1, modprobe) ==
            IF modprobe.ok
            THEN [st1 EXCEPT !.made_critical_changes = TRUE,
                            !.changes = track_change(
                                            track_change(@, "files", Paths.ModprobeVfioConf, "modified"),
                                            "files", Paths.ModulesLoadConf, "modified"),
                            !.w = modprobe.w]
            ELSE [st1 EXCEPT !.setup_successful = FALSE, !.w = modprobe.w]
    IN
        IF /\ info.passthrough_device_ids # <<>> /\ info.iommu_enabled
           /\ Response(asks, ans.vfio_modprobe) = "y"
        THEN AfterModprobe(st, configure_vfio_modprobe(
                                   h, Step(st.w, "configure_vfio_modprobe"), dry_run))
        ELSE st

\* lines 158-201: the call at line 168 passes (dry_run, debug, output_dir) to
\* configure_kernel_parameters(dry_run, debug) (bootloader.py 352), which
\* Python rejects with TypeError before the function body runs
KernelStep(h, info, asks, ans, dry_run, st) ==
    LET
        \* an exception leaving interactive_setup
        SetupRaises(exc, w) ==
            [result |-> [kind |-> "raise", exc |-> exc], w |-> w]

        \* lines 203-307
        AfterKernelStep(h1, info1, asks1, ans1, dry_run1, st1) ==
            SetupReturns(InstallStep(h1, info1, asks1, ans1, dry_run1,
                             InitramfsStep(h1, asks1, ans1, dry_run1,
                                 ModprobeStep(h1, info1, asks1, ans1, dry_run1, st1))))
    IN
        IF ~info.iommu_enabled \/ ~info.iommu_passthrough_mode
        THEN IF Response(asks, ans.kernel_params) = "y"
             THEN SetupRaises("TypeError", Step(st.w, "configure_kernel_parameters"))
             ELSE AfterKernelStep(h, info, asks, ans, dry_run,
                                  [st EXCEPT !.setup_successful = FALSE])
        ELSE AfterKernelStep(h, info, asks, ans, dry_run, st)

SnapshotStep(h, w, info, ans, dry_run) ==
    IF info.btrfs_system
    THEN create_btrfs_snapshot_recommendation(
             h, Step(w, "create_btrfs_snapshot_recommendation"), ans, dry_run)
    ELSE [path |-> None, w |-> w]

\* interactive_setup without the prerequisite checks of lines 126-147
interactive_setup_without_prerequisites(h, w, info, non_interactive, dry_run, ans) ==
    KernelStep(h, info, ~non_interactive /\ ~dry_run, ans, dry_run,
               [setup_successful |-> TRUE, changes |-> <<>>, made_critical_changes |-> FALSE, w |-> w])

\* interactive_setup(output_dir, system_info, non_interactive, dry_run, debug)
interactive_setup(h, w, info, non_interactive, dry_run, ans) ==
    LET
        SetupState(ok, changes, critical, w1) ==
            [setup_successful |-> ok, changes |-> changes, made_critical_changes |-> critical, w |-> w1]

        \* lines 150-156: BTRFS snapshot
        AfterSnapshot(h1, info1, asks, ans1, dry_run1, snapshot) ==
            KernelStep(h1, info1, asks, ans1, dry_run1,
                       SetupState(TRUE,
                                  IF snapshot.path # None
                                  THEN track_change(<<>>, "btrfs", snapshot.path[1], "snapshot")
                                  ELSE <<>>,
                                  FALSE, snapshot.w))
    IN
        IF \/ ~info.root_privileges
           \/ ~info.cpu_virtualization
           \/ info.gpu_for_passthrough = None
           \/ /\ info.host_gpu_driver_ok # Some(TRUE)
              /\ ~non_interactive
              /\ Lower(ans.continue_anyway) # "y"
        THEN SetupReturns(SetupState(FALSE, <<>>, FALSE, w))
        ELSE AfterSnapshot(h, info, ~non_interactive /\ ~dry_run, ans, dry_run,
                           SnapshotStep(h, w, info, ans, dry_run))

-----------------------------------------------------------------------------
(* The installations, discovery results and answers a setup run starts     *)
(* from.                                                                   *)

Installations ==
    LET
        Installed(distro, bins, files, configured, packages) ==
            [distro |-> distro, bins |-> bins, files |-> files, configured |-> configured,
             packages |-> packages]

        CommonDirs ==
            {Paths.ModprobeDir, Paths.ModulesLoadDir, Paths.BootDir}
    IN
        { \* Arch with mkinitcpio, nothing configured yet
          Installed("arch", {"mkinitcpio", "pacman", "systemctl", "btrfs"},
                    CommonDirs \cup {Paths.ArchRelease, Paths.MkinitcpioConf, Paths.SnapshotsDir,
                                     "/usr/share/libalpm/hooks/60-mkinitcpio-remove.hook"},
                    {}, {}),
          \* the same after an earlier run: every file carries the settings
          Installed("arch", {"mkinitcpio", "pacman", "systemctl", "btrfs"},
                    CommonDirs \cup {Paths.ArchRelease, Paths.MkinitcpioConf, Paths.SnapshotsDir, Paths.ExistingSnapshot,
                                     Paths.ModprobeVfioConf, Paths.ModulesLoadConf},
                    {Paths.MkinitcpioConf, Paths.ModprobeVfioConf, Paths.ModulesLoadConf},
                    {"qemu-full"}),
          \* Garuda: dracut is the default, mkinitcpio is installed without its configuration
          Installed("garuda", {"dracut", "mkinitcpio", "pacman", "systemctl"},
                    CommonDirs \cup {Paths.ArchRelease, Paths.DracutConfDir}, {}, {}),
          \* Arch with booster
          Installed("arch", {"booster", "pacman"},
                    CommonDirs \cup {Paths.ArchRelease, Paths.BoosterYaml}, {}, {}),
          \* Fedora
          Installed("fedora", {"dracut", "systemctl"},
                    CommonDirs \cup {Paths.DracutConf, Paths.DracutConfDir, Paths.DracutVfioConf}, {}, {}),
          \* Ubuntu
          Installed("ubuntu", {"update-initramfs", "systemctl"},
                    CommonDirs \cup {Paths.InitramfsToolsDir, Paths.InitramfsToolsModules}, {}, {}),
          \* openSUSE
          Installed("opensuse", {"dracut", "mkinitrd", "systemctl", "btrfs"},
                    CommonDirs \cup {Paths.SysconfigKernel, Paths.SnapshotsDir}, {}, {}),
          \* Void: no distribution rule, booster marked as the default by its files
          Installed("void", {"dracut", "booster"},
                    CommonDirs \cup {"/usr/lib/booster"}, {}, {}),
          \* Kali: no distribution rule, initramfs-tools the only system, configured
          Installed("kali", {"update-initramfs", "systemctl"},
                    CommonDirs \cup {Paths.InitramfsToolsDir, Paths.InitramfsToolsModules},
                    {Paths.InitramfsToolsModules}, {}),
          \* a distribution with no supported initramfs system
          Installed("gentoo", {}, {Paths.BootDir}, {}, {}) }

\* the installation before the run: nothing written, created, copied or executed
FreshDisk(i) ==
    [files |-> i.files, configured |-> i.configured, packages |-> i.packages,
     written |-> {}, created |-> {}, backups |-> {}, commands |-> <<>>, steps |-> <<>>]

HostOf(i, commands_succeed) ==
    [distro |-> i.distro, bins |-> i.bins, commands_succeed |-> commands_succeed]

\* what gather_system_info can hand to interactive_setup: no device IDs
\* without a selected GPU and an enabled IOMMU, no host driver verdict
\* without a selected GPU
SetupInfos ==
    { info \in [root_privileges        : BOOLEAN,
                cpu_virtualization     : BOOLEAN,
                btrfs_system           : BOOLEAN,
                libvirt_installed      : BOOLEAN,
                iommu_enabled          : BOOLEAN,
                iommu_passthrough_mode : BOOLEAN,
                gpu_for_passthrough    : {None, Some([bdf |-> "0b:00.0", vendor |-> "AMD"])},
                host_gpu_driver_ok     : {None, Some(TRUE), Some(FALSE)},
                passthrough_device_ids : {<<>>, <<"1002:73bf", "1002:ab28">>}] :
        /\ (info.gpu_for_passthrough = None) = (info.host_gpu_driver_ok = None)
        /\ info.passthrough_device_ids # <<>>
              => info.gpu_for_passthrough # None /\ info.iommu_enabled }

AllYes ==
    [continue_anyway |-> "y", kernel_params |-> "y", vfio_modprobe |-> "y",
     initramfs |-> "y", install |-> "y", snapshot_path |-> "",
     use_existing |-> "y", create_snapshot |-> "y"]

\* the user agrees to everything, or declines at one prompt
AnswerSets ==
    {AllYes} \cup {[AllYes EXCEPT ![q] = "n"] : q \in DOMAIN AllYes \ {"snapshot_path"}}

SetupIdle ==
    /\ host = [distro |-> "", bins |-> {}, commands_succeed |-> FALSE]
    /\ disk = [files |-> {}, configured |-> {}, packages |-> {},
               written |-> {}, created |-> {}, backups |-> {}, commands |-> <<>>, steps |-> <<>>]
    /\ setup_args = None
    /\ answers = AllYes
    /\ setup_result = None
    /\ setup_pc = "idle"

SetupInit ==
    /\ \E i \in Installations, commands_succeed \in BOOLEAN :
          /\ host = HostOf(i, commands_succeed)
          /\ disk = FreshDisk(i)
    /\ \E info \in SetupInfos, non_interactive \in BOOLEAN, dry_run \in BOOLEAN :
          setup_args = Some([system_info |-> info, non_interactive |-> non_interactive,
                             dry_run |-> dry_run])
    /\ answers \in AnswerSets
    /\ setup_result = None
    /\ setup_pc = "call"

\* main's call of interactive_setup (cli.py 460-462)
InteractiveSetup ==
    /\ setup_pc = "call"
    /\ \E r \in {interactive_setup(host, disk, setup_args[1].system_info,
                                   setup_args[1].non_interactive, setup_args[1].dry_run,
                                   answers)} :
          /\ setup_result' = Some(r.result)
          /\ disk' = r.w
    /\ setup_pc' = "done"
    /\ UNCHANGED <<host, setup_args, answers>>
    /\ UNCHANGED <<rel_vars, sel_vars, gather_vars, ids_vars, verify_vars, conf_vars>>

SetupNext == InteractiveSetup

-----------------------------------------------------------------------------
(* main in standard setup mode (cli.py 340-500), past the dependency, root *)
(* and CPU-vendor checks: the discovery pass, the summary and the          *)
(* confirmation prompt, then interactive_setup.                            *)

\* the machines main runs on: no display device, a GPU for the host next to
\* the AMD one, several AMD GPUs, the AMD GPU alone, a listing that cannot
\* be parsed
MainMachines ==
    [lspci   : {TRUE},
     mm      : {Some(<<MmLine.HostBridge, MmLine.Noise>>),
                Some(<<MmLine.NvidiaVga, MmLine.AmdVga, MmLine.AmdAudio>>),
                Some(<<MmLine.NvidiaVga, MmLine.AmdVga, MmLine.AmdVga2>>),
                Some(<<MmLine.AmdVga, MmLine.AmdAudio>>),
                Some(<<MmLine.NvidiaVga, MmLine.AmdVga, MmLine.ThreePart>>)},
     k       : {None},
     sysfs   : {[exists |-> FALSE, readable |-> TRUE, entries |-> <<>>],
                SysfsDir(<<GroupDir("12", Links.Gpu)>>)},
     cmdline : {Some("BOOT_IMAGE=/vmlinuz-linux root=/dev/sda2 rw quiet"),
                Some("BOOT_IMAGE=/vmlinuz-linux root=/dev/sda2 rw intel_iommu=on iommu=pt")}]

\* the process after parse_args (--dry-run turns --debug on, line 335) and
\* check_root; setup_args holds the flags and the checks of lines 44-50
MainInit ==
    /\ machine \in MainMachines
    /\ user_input \in {"1", "x"}
    /\ SYSTEM_CACHE = EmptyCache
    /\ system_info = SystemInfo0
    /\ call_log = <<>>
    /\ g_pc = "start"
    /\ pass_no = 1
    /\ \E i \in {x \in Installations : x.distro = "arch"} :
          /\ host = HostOf(i, TRUE)
          /\ disk = FreshDisk(i)
    /\ \E cpu_virtualization \in BOOLEAN, libvirt_installed \in BOOLEAN,
          non_interactive \in BOOLEAN, dry_run \in BOOLEAN :
          /\ debug \in {TRUE, dry_run}
          /\ setup_args = Some([system_info |-> [root_privileges    |-> TRUE,
                                                 cpu_virtualization |-> cpu_virtualization,
                                                 btrfs_system       |-> FALSE,
                                                 libvirt_installed  |-> libvirt_installed],
                                non_interactive |-> non_interactive,
                                dry_run |-> dry_run])
    /\ answers \in {AllYes, [AllYes EXCEPT !.kernel_params = "n"], [AllYes EXCEPT !.continue_anyway = "n"]}
    /\ setup_result = None
    /\ setup_pc = "call"

\* lines 433-461: main returns 1 when the discovery pass raised or the user
\* does not confirm; otherwise it calls interactive_setup on what the pass returned
MainSetup ==
    /\ setup_pc = "call"
    /\ g_pc \in {"done", "raised"}
    /\ \E proceed \in {"y", "n"} :
          IF g_pc = "raised" \/ (~setup_args[1].dry_run /\ ~setup_args[1].non_interactive /\ proceed # "y")
          THEN /\ setup_pc' = "exit1"
               /\ UNCHANGED <<disk, setup_args, setup_result>>
          ELSE \E r \in {interactive_setup(host, disk, setup_args[1].system_info @@ system_info,
                                            setup_args[1].non_interactive, setup_args[1].dry_run,
                                            answers)} :
                  /\ setup_result' = Some(r.result)
                  /\ disk' = r.w
                  /\ setup_args' = Some([setup_args[1] EXCEPT !.system_info = @ @@ system_info])
                  /\ setup_pc' = "done"
    /\ UNCHANGED <<host, answers>>
    /\ UNCHANGED <<rel_vars, sel_vars, gather_vars, ids_vars, verify_vars, conf_vars>>

MainNext == GatherSystemInfo \/ MainSetup

-----------------------------------------------------------------------------
(* create_cleanup_script (state.py 298-397), called by main on the changes  *)
(* interactive_setup returned (cli.py 464-476).  The script is the list of *)
(* its reverting commands: cp of a backup over its target, rm of a file,   *)
(* kernelstub --delete-options, and the closing update-initramfs.          *)

create_cleanup_script(changes, dry_run) ==
    LET
        Command(op, source, target) == [op |-> op, source |-> source, target |-> target]

        \* lines 349-365
        FileCommands(change) ==
            IF change.action = "modified" /\ "backup_path" \in DOMAIN change
            THEN <<Command("cp", change.backup_path, change.target)>>
            ELSE IF change.action = "created"
            THEN <<Command("rm", "", change.target)>>
            ELSE <<>>

        \* lines 367-374
        KernelstubCommands(change) ==
            IF change.action = "added"
            THEN <<Command("kernelstub --delete-options", "", change.target)>>
            ELSE <<>>

        \* lines 376-387
        ModuleCommands(change) ==
            IF "file_path" \in DOMAIN change
            THEN <<Command("rm", "", change.file_path)>>
            ELSE <<>>

        CommandsOf(change) ==
            CASE change.category = "files"      -> FileCommands(change)
              [] change.category = "kernelstub" -> KernelstubCommands(change)
              [] change.category = "modules"    -> ModuleCommands(change)
              [] OTHER                          -> <<>>

        \* the changes of the first category, then those of the others:
        \* the iteration order of the changes dictionary
        RECURSIVE ByCategory(_)
        ByCategory(entries) ==
            IF entries = <<>> THEN <<>>
            ELSE LET InFirst(c) == c.category = entries[1].category
                     NotInFirst(c) == ~InFirst(c)
                 IN SelectSeq(entries, InFirst) \o ByCategory(SelectSeq(entries, NotInFirst))

        RECURSIVE Commands(_)
        Commands(entries) ==
            IF entries = <<>> THEN <<>>
            ELSE CommandsOf(Head(entries)) \o Commands(Tail(entries))
    IN
        IF dry_run \/ changes = <<>> THEN None
        ELSE Some(Commands(ByCategory(changes)) \o <<Command("update-initramfs -u", "", "")>>)

-----------------------------------------------------------------------------
(* Claims about the setup workflow.                                        *)

SetupDone == setup_pc = "done"

DryRun == setup_args # None /\ setup_args[1].dry_run

\* the system configuration files of the workflow: GRUB defaults, modprobe.d,
\* modules-load.d, mkinitcpio.conf, the dracut and booster configurations
ConfigurationFiles ==
    {Paths.GrubDefault, Paths.ModprobeVfioConf, Paths.ModulesLoadConf, Paths.MkinitcpioConf,
     Paths.DracutVfioConf, Paths.BoosterVfioYaml}

\* a command that changes the installation: not one of run_command's
\* read-only commands and not one of the queries
Modifying(command) ==
    /\ ~IsReadOnly(command)
    /\ command \notin {"whoami", "sudo /usr/bin/btrfs subvolume get-default /"}
    /\ ~StartsWith(command, "pacman -Q ")

\* C6: after any dry-run execution of interactive_setup (dry_run=True), with
\* its calls of configure_vfio_modprobe and update_initramfs, no system
\* configuration file has been written and no modifying external command
\* has been run.
C6_DryRunChangesNothing ==
    (SetupDone /\ DryRun) =>
        /\ disk.written \cap ConfigurationFiles = {}
        /\ \A i \in DOMAIN disk.commands : ~Modifying(disk.commands[i])

\* the exit status of main (cli.py 433-499): 1 when it returned before the
\* setup, 0 when setup_successful is True, 1 otherwise; an exception that
\* leaves main ends the process with status 1
ExitStatus ==
    IF setup_pc = "exit1" THEN 1
    ELSE IF setup_result[1].kind = "return" /\ setup_result[1].setup_successful THEN 0
    ELSE 1

\* C18: when the IOMMU is enabled and passthrough_device_ids is empty, the
\* setup run is not reported successful: interactive_setup does not return
\* setup_successful True and main does not exit with status 0.
C18_EmptyIdsNotSuccessful ==
    (/\ SetupDone
     /\ setup_args[1].system_info.iommu_enabled
     /\ setup_args[1].system_info.passthrough_device_ids = <<>>) =>
        /\ ~(setup_result[1].kind = "return" /\ setup_result[1].setup_successful)
        /\ ExitStatus # 0

\* main has ended: it returned before the setup or interactive_setup ended
MainEnded == setup_pc \in {"done", "exit1"}

\* the discovery pass found no display device, or the selection failed
NoDeviceSelected ==
    /\ g_pc = "done"
    /\ system_info.gpus = <<>> \/ system_info.gpu_for_passthrough = None

\* C19: when no display device is found or the selection fails, the
\* workflow halts: no step of the setup is performed (no kernel-parameter,
\* modprobe or initramfs step, no command, no file written), no discovery
\* function is called a second time, and the run ends with exit status 1.
C19_HaltsWithoutDevice ==
    (MainEnded /\ NoDeviceSelected) =>
        /\ disk.steps = <<>>
        /\ disk.commands = <<>>
        /\ disk.written = {}
        /\ ExitStatus = 1
        /\ setup_pc = "done" =>
              /\ setup_result[1].kind = "return"
              /\ ~setup_result[1].setup_successful
              /\ setup_result[1].changes = <<>>
        /\ \A fn \in {"get_pci_devices_mm", "get_gpus", "find_gpu_for_passthrough"} : Len(CallsOf(fn)) <= 1
        /\ CallsOf("get_iommu_groups") = <<>>

\* display devices were found, the selection failed at the prompt, and
\* interactive_setup was called and returned
C19_Witness ==
    /\ setup_pc = "done"
    /\ g_pc = "done"
    /\ Len(system_info.gpus) = 3
    /\ system_info.gpu_for_passthrough = None
    /\ CallsOf("find_gpu_for_passthrough")[1].prompted
    /\ ~setup_args[1].system_info.iommu_enabled
    /\ ExitStatus = 1

\* C22: interactive_setup terminates with a (setup_successful, changes,
\* made_critical_changes) result on every path, the path where the
\* kernel-parameter configuration is needed and accepted included; it never
\* ends with an unhandled error.
C22_SetupAlwaysReturns ==
    SetupDone => setup_result[1].kind = "return"

\* C23: for every 'files' change interactive_setup tracked
\* (/etc/default/grub, /etc/modprobe.d/vfio.conf,
\* /etc/modules-load.d/vfio-pci-load.conf), the cleanup script generated
\* from the changes contains a step that restores the file from its backup
\* or removes it.
C23_FileChangesReverted ==
    (SetupDone /\ ~DryRun /\ setup_result[1].kind = "return") =>
        \A i \in DOMAIN setup_result[1].changes :
            setup_result[1].changes[i].category = "files" =>
                \E script \in {create_cleanup_script(setup_result[1].changes, setup_args[1].dry_run)} :
                    /\ script # None
                    /\ \E j \in DOMAIN script[1] :
                          /\ script[1][j].op \in {"cp", "rm"}
                          /\ script[1][j].target = setup_result[1].changes[i].target

\* the commands that regenerate the initramfs
RegeneratesInitramfs(command) ==
    command \in {"mkinitcpio -P", "mkinitcpio -p 6.8.0", "dracut -f /boot/initramfs-6.8.0.img 6.8.0",
                 "dracut --force", "dracut -f", "booster build", "update-initramfs -u -k all",
                 "mkinitrd"}

\* the run returned with made_critical_changes True
MadeCriticalChanges ==
    /\ setup_result[1].kind = "return"
    /\ setup_result[1].made_critical_changes

GpuFoundInGroup ==
    /\ system_info.gpu_for_passthrough # None
    /\ system_info.iommu_groups # None
    /\ \E i \in 1..Len(GroupItems(system_info.iommu_groups[1])) :
          ShortBdf(GroupItems(system_info.iommu_groups[1])[i].device.bdf)
              = ShortBdf(system_info.gpu_for_passthrough[1].bdf)

-----------------------------------------------------------------------------
(* verify_after_reboot  (reporting.py 228-313)                             *)
(* What a verification function finds, what the user answers to "attempt  *)
(* to fix" and whether the fix function succeeds are read from the machine *)
(* and the terminal; a step of the run is [success, fix, fixed]: the       *)
(* check's verdict, the answer, and the verdict of the fix.                *)

\* the step ids of lines 249-255
VerificationSteps ==
    <<"kernel_parameters", "iommu_active", "iommu_groups", "vfio_binding", "host_gpu">>

\* [result, verification_results]: the returned bool and, per step, its
\* "success" and its "fixed" entry (None when the key was never set)
verify_after_reboot(interactive, steps) ==
    LET
        \* lines 257-274 for one step
        StepResult(step) ==
            [success |-> step.success,
             fixed   |-> IF ~step.success /\ step.fix = "y" THEN Some(step.fixed) ELSE None]

        \* verification_success after the loop: line 265 clears it at every failed step
        verification_success ==
            \A i \in 1..Len(steps) : steps[i].success
    IN
        IF ~interactive THEN [result |-> FALSE, verification_results |-> <<>>]
        ELSE [result |-> verification_success,
              verification_results |-> [i \in 1..Len(steps) |-> StepResult(steps[i])]]

\* a step passes, fails and is left alone, fails and its fix fails, or fails
\* and its fix succeeds
StepOutcomes ==
    {[success |-> TRUE, fix |-> "n", fixed |-> FALSE],
     [success |-> FALSE, fix |-> "n", fixed |-> FALSE],
     [success |-> FALSE, fix |-> "y", fixed |-> FALSE],
     [success |-> FALSE, fix |-> "y", fixed |-> TRUE]}

VerifyIdle ==
    /\ verify_pc = "idle"
    /\ verify_env = [interactive |-> FALSE, steps |-> <<>>]
    /\ verify_result = None

VerifyInit ==
    /\ verify_pc = "call"
    /\ verify_env \in [interactive : BOOLEAN, steps : [1..Len(VerificationSteps) -> StepOutcomes]]
    /\ verify_result = None

\* main's call of verify_after_reboot (cli.py 387-393)
VerifyAfterReboot ==
    /\ verify_pc = "call"
    /\ verify_result' = Some(verify_after_reboot(verify_env.interactive, verify_env.steps))
    /\ verify_pc' = "done"
    /\ UNCHANGED verify_env
    /\ UNCHANGED <<rel_vars, sel_vars, gather_vars, setup_vars, ids_vars, conf_vars>>

VerifyNext == VerifyAfterReboot

\* C21: verify_after_reboot(interactive=True) returns True if every
\* verification step passed or was successfully fixed, and False otherwise.
C21_TrueIffPassedOrFixed ==
    (verify_pc = "done" /\ verify_env.interactive) =>
        (verify_result[1].result
            <=> \A i \in 1..Len(verify_env.steps) :
                    \/ verify_env.steps[i].success
                    \/ verify_env.steps[i].fix = "y" /\ verify_env.steps[i].fixed)

-----------------------------------------------------------------------------
(* Editing a configuration file in place: modify_grub_default              *)
(* (bootloader.py 89-211) on /etc/default/grub.  The file is None (absent) *)
(* or its lines; the backups directory maps the timestamp that names a     *)
(* copy to the lines copied; conf_env says whether the backups directory   *)
(* can be made, the copy made and the file written.                        *)

MaxCalls == 2

\* create_timestamped_backup returning the path of a copy it did not make
create_timestamped_backup_copy_unchecked(file, backups, env, now, dry_run) ==
    IF file = None THEN [path |-> None, backups |-> backups]
    ELSE IF dry_run \/ ~env.mkdir_ok \/ ~env.copy_ok THEN [path |-> Some(now), backups |-> backups]
    ELSE [path |-> Some(now),
          backups |-> [t \in DOMAIN backups \cup {now} |-> IF t = now THEN file[1] ELSE backups[t]]]

\* create_timestamped_backup(file_path_str, dry_run, debug) on the file's
\* lines: [path, backups], the returned path (None, or the timestamp that
\* names the copy) and the backups directory after the call
create_timestamped_backup_copy(file, backups, env, now, dry_run) ==
    IF file = None THEN [path |-> None, backups |-> backups]
    ELSE IF ~dry_run /\ ~env.mkdir_ok THEN [path |-> None, backups |-> backups]
    ELSE IF dry_run THEN [path |-> Some(now), backups |-> backups]
    ELSE IF ~env.copy_ok THEN [path |-> None, backups |-> backups]
    ELSE [path |-> Some(now),
          backups |-> [t \in DOMAIN backups \cup {now} |-> IF t = now THEN file[1] ELSE backups[t]]]

\* modify_grub_default(params_to_add, dry_run, debug): [success, backup_path,
\* file, backups, did], did being the operations on the file system in order
modify_grub_default(file, backups, env, params_to_add, now, dry_run) ==
    LET
        Done(success, backup_path, file1, backups1, did) ==
            [success |-> success, backup_path |-> backup_path, file |-> file1,
             backups |-> backups1, did |-> did]

        \* the first index from i on that holds no whitespace
        RECURSIVE SkipSpace(_, _)
        SkipSpace(s, i) ==
            IF i <= Len(s) /\ Char(s, i) \in Whitespace THEN SkipSpace(s, i + 1) ELSE i

        \* the first index from i on that holds whitespace, or the end
        RECURSIVE SkipWord(_, _)
        SkipWord(s, i) ==
            IF i <= Len(s) /\ Char(s, i) \notin Whitespace THEN SkipWord(s, i + 1) ELSE i

        \* s.find(c, i): 0 when absent
        RECURSIVE Find(_, _, _)
        Find(s, c, i) ==
            IF i > Len(s) THEN 0
            ELSE IF Char(s, i) = c THEN i
            ELSE Find(s, c, i + 1)

        \* set(s.split())
        RECURSIVE Words(_)
        Words(s) ==
            IF SkipSpace(s, 1) > Len(s) THEN {}
            ELSE {SubSeq(s, SkipSpace(s, 1), SkipWord(s, SkipSpace(s, 1)) - 1)}
                     \cup Words(SubSeq(s, SkipWord(s, SkipSpace(s, 1)), Len(s)))

        \* p.split('=')[0]
        Key(p) ==
            IF Find(p, "=", 1) = 0 THEN p ELSE SubSeq(p, 1, Find(p, "=", 1) - 1)

        Name == "GRUB_CMDLINE_LINUX_DEFAULT"

        \* r'(^\s*GRUB_CMDLINE_LINUX_DEFAULT\s*=\s*(["\']))(.*?)(\2)' on one line:
        \* None, or groups 1, 3 and 4 and what follows the match on the line
        LineMatch(line) ==
            LET n == SkipSpace(line, 1)
                e == SkipSpace(line, n + Len(Name))
                q == SkipSpace(line, e + 1)
                close == Find(line, Char(line, q), q + 1)
            IN  IF /\ n + Len(Name) - 1 <= Len(line)
                   /\ SubSeq(line, n, n + Len(Name) - 1) = Name
                   /\ Char(line, e) = "="
                   /\ Char(line, q) \in {"\"", "'"}
                   /\ close # 0
                THEN Some([prefix |-> SubSeq(line, 1, q),
                           params |-> SubSeq(line, q + 1, close - 1),
                           suffix |-> Char(line, q),
                           rest   |-> SubSeq(line, close + 1, Len(line))])
                ELSE None

        \* re.search(..., re.MULTILINE): the first line that matches, 0 when none
        MatchedLine(lines) ==
            IF \E i \in 1..Len(lines) : LineMatch(lines[i]) # None
            THEN CHOOSE i \in 1..Len(lines) :
                     /\ LineMatch(lines[i]) # None
                     /\ \A j \in 1..(i - 1) : LineMatch(lines[j]) = None
            ELSE 0

        \* lines 155-179
        FinalParams(current_params_str, params) ==
            LET current_params == Words(current_params_str)
                new_params_to_add_set == {params[i] : i \in 1..Len(params)}
                param_prefixes_to_replace ==
                    {Key(p) : p \in {x \in new_params_to_add_set : Find(x, "=", 1) # 0}}
                        \cup {p \in new_params_to_add_set : Find(p, "=", 1) = 0}
                filtered_current_params ==
                    {p \in current_params :
                        ~(Key(p) \in param_prefixes_to_replace \/ p \in param_prefixes_to_replace)}
            IN  Join(SortedTexts(filtered_current_params \cup new_params_to_add_set), " ")

        \* lines 181-191
        NewLine(m, params) ==
            m.prefix \o FinalParams(m.params, params) \o m.suffix \o m.rest

        \* the copy named by the returned path is in the backups directory
        Copied(backup) ==
            IF backup.path # None /\ backup.path[1] \in DOMAIN backup.backups
            THEN <<"backup">> ELSE <<>>

        \* "if backup_path and Path(backup_path).exists(): shutil.move(backup_path,
        \* str(grub_default_path))" of lines 147-148 and 205-207
        Restored(lines, backup) ==
            IF Copied(backup) = <<>>
            THEN Done(FALSE, backup.path, Some(lines), backup.backups, <<>>)
            ELSE Done(FALSE, backup.path, Some(backup.backups[backup.path[1]]),
                      [t \in DOMAIN backup.backups \ {backup.path[1]} |-> backup.backups[t]],
                      <<"backup", "restore">>)

        \* lines 138-211, with the backup made
        Modify(lines, backup, params, write_ok) ==
            LET i == MatchedLine(lines)
            IN  IF i = 0 THEN Restored(lines, backup)
                ELSE IF NewLine(LineMatch(lines[i])[1], params) = lines[i]
                THEN Done(TRUE, backup.path, Some(lines), backup.backups, Copied(backup))
                ELSE IF write_ok
                THEN Done(TRUE, backup.path,
                          Some([lines EXCEPT ![i] = NewLine(LineMatch(lines[i])[1], params)]),
                          backup.backups, Copied(backup) \o <<"write">>)
                ELSE Restored(lines, backup)

        \* lines 111-136
        AfterBackup(file1, backups1, backup, params, write_ok, dry_run1) ==
            IF backup.path = None /\ ~dry_run1 THEN Done(FALSE, None, file1, backups1, <<>>)
            ELSE IF dry_run1 THEN Done(TRUE, backup.path, file1, backups1, <<>>)
            ELSE Modify(file1[1], backup, params, write_ok)
    IN
        IF file = None THEN Done(FALSE, None, file, backups, <<>>)
        ELSE AfterBackup(file, backups,
                         create_timestamped_backup_copy(file, backups, env, now, dry_run),
                         params_to_add, env.write_ok, dry_run)

\* no configuration file is being edited
ConfIdle ==
    /\ conf_file = None
    /\ conf_backups = <<>>
    /\ conf_env = [mkdir_ok |-> TRUE, copy_ok |-> TRUE, write_ok |-> TRUE]
    /\ conf_params = <<>>
    /\ conf_calls = <<>>

\* /etc/default/grub as installations have it, and the required_params of
\* configure_kernel_parameters (bootloader.py 372-374)
GrubInit ==
    /\ conf_file \in
         {None,
          Some(<<"GRUB_DEFAULT=0", "GRUB_CMDLINE_LINUX_DEFAULT=\"quiet splash\"", "GRUB_CMDLINE_LINUX=\"\"">>),
          Some(<<"GRUB_CMDLINE_LINUX_DEFAULT=\"amd_iommu=on iommu=pt quiet rd.driver.pre=vfio-pci\"">>),
          Some(<<"GRUB_CMDLINE_LINUX_DEFAULT=\"quiet iommu=soft amd_iommu=off intel_iommu=off\"">>),
          Some(<<"GRUB_CMDLINE_LINUX_DEFAULT='splash  quiet' # default">>),
          Some(<<"GRUB_TIMEOUT=5", "GRUB_CMDLINE_LINUX_DEFAULT=\"\"">>),
          Some(<<"GRUB_DEFAULT=0", "GRUB_CMDLINE_LINUX_DEFAULT=quiet">>),
          Some(<<"#GRUB_CMDLINE_LINUX_DEFAULT=\"old\"", "GRUB_CMDLINE_LINUX_DEFAULT=\"quiet\"">>),
          Some(<<"GRUB_CMDLINE_LINUX_DEFAULT=\"quiet acpi_osi=\\\"Windows 2015\\\"\"">>)}
    /\ conf_backups = <<>>
    /\ conf_env \in [mkdir_ok : BOOLEAN, copy_ok : BOOLEAN, write_ok : BOOLEAN]
    /\ conf_params \in {<<"amd_iommu=on", "iommu=pt", "rd.driver.pre=vfio-pci">>,
                        <<"intel_iommu=on", "iommu=pt", "rd.driver.pre=vfio-pci">>}
    /\ conf_calls = <<>>

\* a call of modify_grub_default (bootloader.py 390-392), in the second of
\* the call before it or later
ModifyGrubDefault ==
    /\ Len(conf_calls) < MaxCalls
    /\ \E dry_run \in BOOLEAN,
          now \in {IF conf_calls = <<>> THEN 1 ELSE conf_calls[Len(conf_calls)].now + d : d \in {0, 1}} :
          \E r \in {modify_grub_default(conf_file, conf_backups, conf_env, conf_params, now, dry_run)} :
             /\ conf_file' = r.file
             /\ conf_backups' = r.backups
             /\ conf_calls' = Append(conf_calls,
                                     [now |-> now, dry_run |-> dry_run, before |-> conf_file,
                                      after |-> r.file, did |-> r.did,
                                      success |-> r.success, backup_path |-> r.backup_path])
    /\ UNCHANGED <<conf_env, conf_params>>
    /\ UNCHANGED <<rel_vars, sel_vars, gather_vars, setup_vars, ids_vars, verify_vars>>

GrubNext == ModifyGrubDefault

\* C26: a non-dry-run call of modify_grub_default never writes
\* /etc/default/grub unless a timestamped backup of the file was created
\* earlier in the same call; when the backup cannot be created the file is
\* left unchanged and failure is returned.
C26_NoWriteWithoutBackup ==
    \A i \in 1..Len(conf_calls) :
        LET call == conf_calls[i]
            Wrote == \E k \in 1..Len(call.did) : call.did[k] = "write"
        IN  ~call.dry_run =>
                /\ Wrote => /\ \E k \in 1..Len(call.did) :
                                 /\ call.did[k] = "write"
                                 /\ \E j \in 1..(k - 1) : call.did[j] = "backup"
                            /\ call.backup_path # None
                            /\ call.backup_path[1] \in DOMAIN conf_backups
                /\ call.after # call.before => Wrote
                /\ (call.before # None /\ (~conf_env.mkdir_ok \/ ~conf_env.copy_ok)) =>
                       /\ ~call.success
                       /\ call.after = call.before
                       /\ ~Wrote

\* a call wrote the file after it had copied it
C26_Witness ==
    \E i \in 1..Len(conf_calls) :
        /\ ~conf_calls[i].dry_run
        /\ conf_calls[i].did = <<"backup", "write">>
        /\ conf_calls[i].after # conf_calls[i].before

\* the kernel parameters of GRUB_CMDLINE_LINUX_DEFAULT as the file is read:
\* the quoted word assigned by the shell (a backslash quotes a double quote
\* inside double quotes), split at the spaces outside double quotes as the
\* kernel splits its command line
CmdlineParams(file) ==
    LET
        Name == "GRUB_CMDLINE_LINUX_DEFAULT="

        Assigns(line) ==
            /\ Len(line) > Len(Name)
            /\ SubSeq(line, 1, Len(Name)) = Name
            /\ Char(line, Len(Name) + 1) \in {"\"", "'"}

        RECURSIVE Quoted(_, _, _)
        Quoted(s, i, q) ==
            IF i > Len(s) \/ Char(s, i) = q THEN ""
            ELSE IF q = "\"" /\ Char(s, i) = "\\" /\ Char(s, i + 1) \in {"\"", "\\"}
            THEN Char(s, i + 1) \o Quoted(s, i + 2, q)
            ELSE Char(s, i) \o Quoted(s, i + 1, q)

        RECURSIVE ArgStart(_, _)
        ArgStart(v, i) ==
            IF i <= Len(v) /\ Char(v, i) \in Whitespace THEN ArgStart(v, i + 1) ELSE i

        RECURSIVE ArgEnd(_, _, _)
        ArgEnd(v, i, in_quote) ==
            IF i > Len(v) \/ (Char(v, i) \in Whitespace /\ ~in_quote) THEN i
            ELSE ArgEnd(v, i + 1, IF Char(v, i) = "\"" THEN ~in_quote ELSE in_quote)

        RECURSIVE Args(_)
        Args(v) ==
            IF ArgStart(v, 1) > Len(v) THEN {}
            ELSE {SubSeq(v, ArgStart(v, 1), ArgEnd(v, ArgStart(v, 1), FALSE) - 1)}
                     \cup Args(SubSeq(v, ArgEnd(v, ArgStart(v, 1), FALSE), Len(v)))
    IN
        IF file = None \/ ~\E i \in 1..Len(file[1]) : Assigns(file[1][i]) THEN {}
        ELSE LET i == CHOOSE k \in 1..Len(file[1]) :
                          Assigns(file[1][k]) /\ \A j \in (k + 1)..Len(file[1]) : ~Assigns(file[1][j])
             IN  Args(Quoted(file[1][i], Len(Name) + 2, Char(file[1][i], Len(Name) + 1)))

\* the key of a kernel parameter: the text before its first "="
ParamKey(param) ==
    IF \E i \in 1..Len(param) : Char(param, i) = "="
    THEN SubSeq(param, 1, (CHOOSE i \in 1..Len(param) :
                               Char(param, i) = "=" /\ \A j \in 1..(i - 1) : Char(param, j) # "=") - 1)
    ELSE param

\* the parameters requested of modify_grub_default
Requested == {conf_params[i] : i \in 1..Len(conf_params)}

\* C27: after a successful non-dry-run modify_grub_default(params), the
\* GRUB_CMDLINE_LINUX_DEFAULT value contains every requested parameter,
\* contains no other parameter with the key of a requested one, and retains
\* every pre-existing parameter whose key is not requested; applying the
\* operation a second time leaves the file unchanged.
C27_ParametersMerged ==
    \A i \in 1..Len(conf_calls) :
        (~conf_calls[i].dry_run /\ conf_calls[i].success) =>
            /\ Requested \subseteq CmdlineParams(conf_calls[i].after)
            /\ \A param \in CmdlineParams(conf_calls[i].after) \ Requested :
                  ParamKey(param) \notin {ParamKey(r) : r \in Requested}
            /\ \A param \in CmdlineParams(conf_calls[i].before) :
                  ParamKey(param) \notin {ParamKey(r) : r \in Requested}
                      => param \in CmdlineParams(conf_calls[i].after)
            /\ \A j \in 1..(i - 1) :
                  (~conf_calls[j].dry_run /\ conf_calls[j].success) =>
                      /\ conf_calls[i].after = conf_calls[i].before
                      /\ \A k \in 1..Len(conf_calls[i].did) : conf_calls[i].did[k] # "write"

-----------------------------------------------------------------------------
(* configure_vfio_modprobe, step 1 (vfio_mods.py 40-131): the rewriting of *)
(* /etc/modprobe.d/vfio.conf.  The file is None or [lines, eof_newline],   *)
(* its lines and whether its text ends with a newline.  Steps 2 and 3 (the *)
(* modules-load.d file and the initramfs configurations) are part of       *)
(* configure_vfio_modprobe above; here the call counts as successful when  *)
(* step 1 does not return False.                                           *)

\* step 1 appending its options line without reading the existing lines
configure_vfio_modprobe_conf_appending(file, backups, env, device_ids, now, dry_run) ==
    IF dry_run \/ ~env.write_ok
    THEN [success |-> dry_run, file |-> file, backups |-> backups, did |-> <<>>]
    ELSE [success |-> TRUE,
          file |-> Some([lines |-> (IF file = None THEN <<>> ELSE file[1].lines)
                                       \o <<"options vfio-pci ids=" \o Join(device_ids, ",")
                                                \o " disable_vga=1 disable_idle_d3=1">>,
                         eof_newline |-> TRUE]),
          backups |-> backups, did |-> <<"write">>]

\* [success, file, backups, did], did being the operations on the file
\* system in order
configure_vfio_modprobe_conf(file, backups, env, device_ids, now, dry_run) ==
    LET
        Done(success, file1, backups1, did) ==
            [success |-> success, file |-> file1, backups |-> backups1, did |-> did]

        \* lines 42-54
        options_line ==
            "options vfio-pci ids=" \o Join(device_ids, ",") \o " disable_vga=1 disable_idle_d3=1"

        softdep_lines ==
            <<"softdep drm pre: vfio-pci", "softdep amdgpu pre: vfio-pci",
              "softdep nouveau pre: vfio-pci", "softdep radeon pre: vfio-pci",
              "softdep nvidia pre: vfio-pci", "softdep i915 pre: vfio-pci">>

        \* lines 75-100: the lines kept, replaced or commented out, found
        \* being vfio_pci_option_found
        RECURSIVE Processed(_, _)
        Processed(existing_lines, found) ==
            IF existing_lines = <<>> THEN <<>>
            ELSE LET line == Head(existing_lines)
                     stripped_line == Strip(line)
                 IN  IF stripped_line = "" \/ StartsWith(stripped_line, "#")
                     THEN <<line>> \o Processed(Tail(existing_lines), found)
                     ELSE IF StartsWith(stripped_line, "options vfio-pci")
                     THEN (IF ~found THEN <<options_line>>
                           ELSE <<"# " \o line \o " # Commented out duplicate by script">>)
                              \o Processed(Tail(existing_lines), TRUE)
                     ELSE <<line>> \o Processed(Tail(existing_lines), found)

        vfio_pci_option_found(existing_lines) ==
            \E i \in 1..Len(existing_lines) :
                /\ ~StartsWith(Strip(existing_lines[i]), "#")
                /\ StartsWith(Strip(existing_lines[i]), "options vfio-pci")

        \* lines 92-94
        existing_softdeps(existing_lines) ==
            {Strip(existing_lines[i]) : i \in {j \in 1..Len(existing_lines) :
                /\ ~StartsWith(Strip(existing_lines[j]), "#")
                /\ ~StartsWith(Strip(existing_lines[j]), "options vfio-pci")
                /\ StartsWith(Strip(existing_lines[j]), "softdep ")
                /\ Contains(" pre: vfio-pci", Strip(existing_lines[j]))}}

        \* lines 102-111
        NewContentLines(existing_lines) ==
            Processed(existing_lines, FALSE)
                \o (IF vfio_pci_option_found(existing_lines) THEN <<>> ELSE <<options_line>>)
                \o SelectSeq(softdep_lines, LAMBDA l : l \notin existing_softdeps(existing_lines))

        \* the copy named by the returned path is in the backups directory
        Copied(backup) ==
            IF backup.path # None /\ backup.path[1] \in DOMAIN backup.backups
            THEN <<"backup">> ELSE <<>>

        \* lines 122-131
        Failed(file1, backup) ==
            IF Copied(backup) = <<>> THEN Done(FALSE, file1, backup.backups, <<>>)
            ELSE Done(FALSE, Some(backup.backups[backup.path[1]]),
                      [t \in DOMAIN backup.backups \ {backup.path[1]} |-> backup.backups[t]],
                      <<"backup", "restore">>)

        \* lines 65-120, with the backup made
        Rewrite(file1, backup, write_ok) ==
            LET new_content == [lines |-> NewContentLines(IF file1 = None THEN <<>> ELSE file1[1].lines),
                                eof_newline |-> TRUE]
            IN  IF file1 = Some(new_content)
                THEN Done(TRUE, file1, backup.backups, Copied(backup))
                ELSE IF write_ok
                THEN Done(TRUE, Some(new_content), backup.backups, Copied(backup) \o <<"write">>)
                ELSE Failed(file1, backup)
    IN
        IF dry_run THEN Done(TRUE, file, backups, <<>>)
        ELSE Rewrite(file, create_timestamped_backup_copy(file, backups, env, now, FALSE), env.write_ok)

\* /etc/modprobe.d/vfio.conf as installations have it (absent, empty, written
\* by an earlier run, edited by hand) and the IDs of the devices to pass
ModprobeInit ==
    /\ conf_file \in
         {None,
          Some([lines |-> <<>>, eof_newline |-> FALSE]),
          Some([lines |-> <<"options vfio-pci ids=1002:73bf,1002:ab28 disable_vga=1 disable_idle_d3=1",
                            "softdep drm pre: vfio-pci", "softdep amdgpu pre: vfio-pci",
                            "softdep nouveau pre: vfio-pci", "softdep radeon pre: vfio-pci",
                            "softdep nvidia pre: vfio-pci", "softdep i915 pre: vfio-pci">>,
                eof_newline |-> TRUE]),
          Some([lines |-> <<"# GPU passthrough", "options vfio-pci ids=10de:1b80",
                            "options kvm ignore_msrs=1", "",
                            "options vfio-pci ids=1002:67df disable_vga=1",
                            "softdep amdgpu pre: vfio-pci">>,
                eof_newline |-> TRUE]),
          Some([lines |-> <<"  options vfio-pci ids=8086:1912", "blacklist nouveau",
                            "#options vfio-pci ids=8086:1912,8086:a170",
                            "\toptions vfio-pci ids=10de:1b80", "options vfio-pci ids=10de:10f0">>,
                eof_newline |-> FALSE])}
    /\ conf_backups = <<>>
    /\ conf_env \in [mkdir_ok : BOOLEAN, copy_ok : BOOLEAN, write_ok : BOOLEAN]
    /\ conf_params \in {<<"1002:73bf", "1002:ab28">>, <<"10de:1b80">>}
    /\ conf_calls = <<>>

\* a call of configure_vfio_modprobe (cli.py 213), in the second of the call
\* before it or later
ConfigureVfioModprobe ==
    /\ Len(conf_calls) < MaxCalls
    /\ \E dry_run \in BOOLEAN,
          now \in {IF conf_calls = <<>> THEN 1 ELSE conf_calls[Len(conf_calls)].now + d : d \in {0, 1}} :
          \E r \in {configure_vfio_modprobe_conf(conf_file, conf_backups, conf_env, conf_params, now, dry_run)} :
             /\ conf_file' = r.file
             /\ conf_backups' = r.backups
             /\ conf_calls' = Append(conf_calls,
                                     [now |-> now, dry_run |-> dry_run, before |-> conf_file,
                                      after |-> r.file, did |-> r.did, success |-> r.success])
    /\ UNCHANGED <<conf_env, conf_params>>
    /\ UNCHANGED <<rel_vars, sel_vars, gather_vars, setup_vars, ids_vars, verify_vars>>

ModprobeNext == ConfigureVfioModprobe

\* an uncommented 'options vfio-pci' line
IsOptionsLine(line) ==
    StartsWith(Strip(line), "options vfio-pci")

\* the lines of the file, none when it is absent
LinesOf(file) ==
    IF file = None THEN <<>> ELSE file[1].lines

\* C28: after any successful non-dry-run configure_vfio_modprobe(ids),
\* /etc/modprobe.d/vfio.conf contains exactly one uncommented
\* 'options vfio-pci' line and it lists exactly the given IDs; the duplicate
\* options lines it had are commented out, unrelated lines are kept, and a
\* second run with the same IDs writes nothing.
C28_OneOptionsLine ==
    \A i \in 1..Len(conf_calls) :
        (~conf_calls[i].dry_run /\ conf_calls[i].success) =>
            LET before == LinesOf(conf_calls[i].before)
                after == LinesOf(conf_calls[i].after)
                unrelated == SelectSeq(before, LAMBDA l : ~IsOptionsLine(l))
                duplicates == Tail(SelectSeq(before, IsOptionsLine) \o <<"">>)
            IN  /\ Cardinality({k \in 1..Len(after) : IsOptionsLine(after[k])}) = 1
                /\ \A k \in 1..Len(after) :
                      IsOptionsLine(after[k]) =>
                          \E rest \in {"", " disable_vga=1 disable_idle_d3=1"} :
                              after[k] = "options vfio-pci ids=" \o Join(conf_params, ",") \o rest
                /\ \A k \in 1..(Len(duplicates) - 1) :
                      \E m \in 1..Len(after) :
                          /\ ~IsOptionsLine(after[m])
                          /\ StartsWith(Strip(after[m]), "#")
                          /\ Contains(duplicates[k], after[m])
                /\ unrelated = SelectSeq(after, LAMBDA l : \E k \in 1..Len(unrelated) : unrelated[k] = l)
                /\ \A j \in 1..(i - 1) :
                      (~conf_calls[j].dry_run /\ conf_calls[j].success) =>
                          /\ conf_calls[i].after = conf_calls[i].before
                          /\ \A k \in 1..Len(conf_calls[i].did) : conf_calls[i].did[k] # "write"

\* a run replaced the first options line of a file that had several and
\* commented the others out, and a second run then wrote nothing
C28_Witness ==
    /\ Len(conf_calls) = 2
    /\ \A i \in 1..2 : ~conf_calls[i].dry_run /\ conf_calls[i].success
    /\ Cardinality({k \in 1..Len(LinesOf(conf_calls[1].before)) :
                        IsOptionsLine(LinesOf(conf_calls[1].before)[k])}) > 1
    /\ conf_calls[1].did = <<"backup", "write">>
    /\ conf_calls[2].did = <<"backup">>
    /\ conf_calls[2].after = conf_calls[1].after

vars == <<rel_vars, sel_vars, gather_vars, setup_vars, ids_vars, verify_vars, conf_vars>>

InitRelated == RelInit /\ SelIdle /\ GatherIdle /\ SetupIdle /\ IdsIdle /\ VerifyIdle /\ ConfIdle
SpecRelated == InitRelated /\ [][RelNext]_vars

InitSpelling == SpellInit /\ SelIdle /\ GatherIdle /\ SetupIdle /\ IdsIdle /\ VerifyIdle /\ ConfIdle
SpecSpelling == InitSpelling /\ [][RelNext]_vars

InitIds == IdsInit /\ RelIdle /\ SelIdle /\ GatherIdle /\ SetupIdle /\ VerifyIdle /\ ConfIdle
SpecIds == InitIds /\ [][IdsNext]_vars

InitVerify == VerifyInit /\ RelIdle /\ SelIdle /\ GatherIdle /\ SetupIdle /\ IdsIdle /\ ConfIdle
SpecVerify == InitVerify /\ [][VerifyNext]_vars

InitSelect == SelInit /\ RelIdle /\ GatherIdle /\ SetupIdle /\ IdsIdle /\ VerifyIdle /\ ConfIdle
SpecSelect == InitSelect /\ [][SelNext]_vars

InitGather == machine \in Machines /\ GatherStart /\ RelIdle /\ SelIdle /\ SetupIdle /\ IdsIdle /\ VerifyIdle /\ ConfIdle
SpecGather == InitGather /\ [][GatherNext]_vars

InitGroups == machine \in GroupMachines /\ GatherStart /\ RelIdle /\ SelIdle /\ SetupIdle /\ IdsIdle /\ VerifyIdle /\ ConfIdle
SpecGroups == InitGroups /\ [][GatherNext]_vars

InitPasses == machine \in PassMachines /\ GatherStart /\ RelIdle /\ SelIdle /\ SetupIdle /\ IdsIdle /\ VerifyIdle /\ ConfIdle
SpecPasses == InitPasses /\ [][PassesNext]_vars

InitMain == MainInit /\ RelIdle /\ SelIdle /\ IdsIdle /\ VerifyIdle /\ ConfIdle
SpecMain == InitMain /\ [][MainNext]_vars

InitSetup == SetupInit /\ RelIdle /\ SelIdle /\ GatherIdle /\ IdsIdle /\ VerifyIdle /\ ConfIdle
SpecSetup == InitSetup /\ [][SetupNext]_vars

InitGrub == GrubInit /\ RelIdle /\ SelIdle /\ GatherIdle /\ SetupIdle /\ IdsIdle /\ VerifyIdle
SpecGrub == InitGrub /\ [][GrubNext]_vars

InitModprobe == ModprobeInit /\ RelIdle /\ SelIdle /\ GatherIdle /\ SetupIdle /\ IdsIdle /\ VerifyIdle
SpecModprobe == InitModprobe /\ [][ModprobeNext]_vars
====
